---- MODULE Spec2Model ----
(***************************************************************************)
(* Model of the batch downloader src/utils/03.download_videos_V2.0.py:     *)
(* the CSV status ledger (update_csv_status, modify_csv_rows), the         *)
(* download archive (add_to_archive, remove_from_archive,                  *)
(* rebuild_archive_from_files, update_csv_from_archive), the per-item      *)
(* loop of download_batch and the batch scheduler of main.                 *)
(*                                                                         *)
(* The ledger file is modelled with its inodes: update_csv_status opens    *)
(* the path, takes flock on the inode it opened, and replaces the path by  *)
(* a rename, which gives the path a new inode.                             *)
(***************************************************************************)
EXTENDS Integers, Sequences, FiniteSets, TLC

----------------------------------------------------------------------------
(* Bounds of the model *)

\* number of distinct video ids
MaxVideos == 2
\* longest archive file the run may start from
MaxArchive0 == 2
\* number of files that something else than this run puts into OUTPUT_DIR
MaxForeignFiles == 1
\* Config.MIN_BATCH_SIZE and Config.MAX_BATCH_SIZE (4 and 8 in the source),
\* scaled down so that a few videos are split into several batches
MIN_BATCH_SIZE == 1
MAX_BATCH_SIZE == 2
\* number of rows of the ledgers load_videos_from_csv is applied to
MaxLoadRows == 2
\* longest list of urls the submission loop is run on with the real batch sizes
MaxUrls == 13
\* number of direct calls of update_csv_status, and of rows of their ledger
MaxCalls == 2
MaxUcsRows == 2
\* how many times the process may be killed
MaxCrashes == 1
\* videos of a run that submits more batches than the pool has threads
MaxPoolVideos == 3

(* Program constants *)
MAX_WORKERS == 2
MinFileSize == 1024
\* Config.MIN_BATCH_SIZE and Config.MAX_BATCH_SIZE as the source has them
CONFIG_MIN_BATCH_SIZE == 4
CONFIG_MAX_BATCH_SIZE == 8
\* update_csv_status: max_retries, and the first retry_delay in tenths of a second
max_retries == 5
retry_delay == 1

VideoIds == 1..MaxVideos
Workers == 1..MAX_WORKERS
\* inode numbers: the path's inode, one per open descriptor, one temp file
Inodes == 1..(MAX_WORKERS + 2)
NoFd == 0
\* what config.CSV_FILE names when there is no such file
NoIno == 0
\* the values of the channelId column, and main called without --channel-id
Channels == {"UC1", "UC2"}
NoChannel == ""

\* class VideoStatus; a row that was never touched has the empty status
IN_PROGRESS == "in_progress"
DONE == "done"
FAILED == "failed"
UNAVAILABLE == "unavailable"
CAPTCHA_CHALLENGE == "captcha_challenge"
SSL_RETRY == "ssl_retry"
Pending == ""
Terminal == {DONE, FAILED, UNAVAILABLE, CAPTCHA_CHALLENGE, SSL_RETRY}

\* ids a ledger row may hold that are not well-formed: the empty string, a
\* token of 10 characters, and a token of 11 characters one of which is a space
EmptyId == 0
ShortId == -1
SpacedId == -2
MalformedIds == {EmptyId, ShortId, SpacedId}

\* every value of the status column the program writes or leaves
Statuses == {Pending, IN_PROGRESS, DONE, FAILED, UNAVAILABLE, CAPTCHA_CHALLENGE,
             SSL_RETRY}
\* statuses a ledger may hold when a run starts
InitStatuses == {Pending, IN_PROGRESS, DONE, UNAVAILABLE}
\* sizes in bytes of a file "<id>.<ext>" in OUTPUT_DIR; 0 stands for no file
FileSizes == {0, MinFileSize, MinFileSize + 1}
\* sizes of the file a capability call leaves: truncated or complete
LeftSizes == {MinFileSize, MinFileSize + 1}
\* an archive line "<tag> <id>"
ArchiveTags == {"youtube", "other"}
Lines == ArchiveTags \X VideoIds

\* a DownloadError's lower-cased text, as the set of recognised substrings
\* ("captcha", "challenge", "ssl", "eof", "connection", "unavailable") in it
Messages == (SUBSET {"captcha", "connection", "unavailable"})
              \cup {{"challenge"}, {"ssl"}, {"eof"}}

VARIABLES
  files,      \* inode -> rows of the CSV stored in it (<<>> for a free inode)
  csvIno,     \* the inode config.CSV_FILE names
  flock,      \* inode -> worker holding LOCK_EX on it, 0 if none
  archive,    \* lines of config.ARCHIVE_FILE
  outdir,     \* video id -> size of its file in config.OUTPUT_DIR
  foreign,    \* number of files put into OUTPUT_DIR from outside so far
  pcMain,     \* position of the main thread
  urls,       \* main: the shuffled list of videos to download
  idx,        \* main: i, the number of urls already put into batches
  futures,    \* main: the submitted batches, in submission order
  totals,     \* main: <<total_success, total_fail>>
  wpc,        \* worker -> position in download_batch
  wfut,       \* worker -> index in futures of the batch it runs, 0 if idle
  wbatch,     \* worker -> the urls of its batch not yet finished
  wsuccess,   \* worker -> success counter of download_batch
  ucsStatus,  \* worker -> status argument of its update_csv_status call
  ucsRet,     \* worker -> position to continue at after update_csv_status
  fd,         \* worker -> inode of the csvfile it has open, NoFd if none
  rows,       \* worker -> rows it read from csvfile (with its change applied)
  found,      \* worker -> the found flag of update_csv_status
  attempts,   \* history: video id -> what each capability call for it did
  done0,      \* history: the ids whose row was done before anything ran
  archived0,  \* history: the ids the archive named before anything ran
  rebuilt,    \* history: the last step was rebuild_archive_from_files
  channel_id, \* main: its channel_id argument, NoChannel if there is none
  ucsAttempt, \* worker -> attempt, the turn of update_csv_status's retry loop
  ucsDelay,   \* worker -> retry_delay of update_csv_status, in tenths of a second
  ucsSlept,   \* history: worker -> the delays its current call has slept
  calls,      \* number of direct calls of update_csv_status made so far
  crashes,    \* number of times the process was killed so far
  mpc,        \* position of a second process in modify_csv_rows
  mrows,      \* the rows that process has written to its temp file
  alines,     \* worker -> the lines remove_from_archive read from the archive
  dirfiles,   \* cleanup tool: file name in DOWNLOADS_DIR -> size, 0 if no file
  cpc,        \* cleanup tool: position of its main
  cstats      \* cleanup tool: error_stats of analyze_all_errors

mainVars == <<pcMain, urls, idx, futures, totals>>
workerVars == <<wpc, wfut, wbatch, wsuccess, ucsStatus, ucsRet, fd, rows, found>>
storeVars == <<files, csvIno, flock, archive, outdir, foreign>>
histVars == <<attempts, done0, archived0>>
retryVars == <<ucsAttempt, ucsDelay, ucsSlept>>
\* what no step of a run changes
\* the second process
procVars == <<mpc, mrows>>
\* the cleanup tool
cleanVars == <<dirfiles, cpc, cstats>>
auxVars == <<channel_id, cleanVars, calls, crashes, procVars, alines>>
vars == <<files, csvIno, flock, archive, outdir, foreign, pcMain, urls, idx, futures,
          totals, wpc, wfut, wbatch, wsuccess, ucsStatus, ucsRet, fd, rows,
          found, attempts, done0, archived0, rebuilt, channel_id, ucsAttempt,
          ucsDelay, ucsSlept, calls, crashes, mpc, mrows, alines, dirfiles, cpc,
          cstats>>

----------------------------------------------------------------------------
(* Helpers *)

Range(s) == {s[k] : k \in DOMAIN s}

\* the rows of the ledger as a reader of config.CSV_FILE sees them now
ledger == files[csvIno]

RowIds(rs) == {rs[k].videoId : k \in DOMAIN rs}

\* the status of video_id in rows rs ("none" if it has no row)
StatusOf(rs, video_id) ==
  IF video_id \in RowIds(rs)
  THEN (CHOOSE r \in Range(rs) : r.videoId = video_id).status
  ELSE "none"

Perms(S) ==
  {p \in [1..Cardinality(S) -> S] : \A a, b \in DOMAIN p : a # b => p[a] # p[b]}

SeqsUpTo(S, n) == UNION {[1..k -> S] : k \in 0..n}

\* string order of two archive lines "<tag> <id>"
LineLeq(a, b) ==
  \/ a[1] = "other" /\ b[1] = "youtube"
  \/ a[1] = b[1] /\ a[2] <= b[2]

RECURSIVE sorted(_)
sorted(S) ==
  IF S = {} THEN <<>>
  ELSE LET m == CHOOSE x \in S : \A y \in S : LineLeq(x, y)
       IN <<m>> \o sorted(S \ {m})

----------------------------------------------------------------------------
(* The pure parts of the code *)

\* variant: the size test asks for more than one byte above 1 KiB
verify_downloaded_file_larger(dir, video_id) == dir[video_id] > MinFileSize + 1

\* verify_downloaded_file: a file of the video in OUTPUT_DIR larger than 1 KiB
verify_downloaded_file(dir, video_id) == dir[video_id] > MinFileSize

\* update_csv_status, the loop over the rows: set the status of matching rows
SetStatus(rs, video_id, status) ==
  [k \in DOMAIN rs |->
     IF rs[k].videoId = video_id THEN [rs[k] EXCEPT !.status = status]
     ELSE rs[k]]

\* variant: the file is rewritten whether or not a row matched
HasRow_always(rs, video_id) == TRUE

\* update_csv_status, the found flag
HasRow(rs, video_id) == \E k \in DOMAIN rs : rs[k].videoId = video_id

\* variant: only rows that were never touched are promoted
update_pending_only(row, ids) ==
  IF row.videoId \in ids /\ row.status = Pending
  THEN [row EXCEPT !.status = DONE]
  ELSE row

\* variant: a done row whose id is not in ids is reset to pending
update_resetting(row, ids) ==
  IF row.videoId \in ids THEN [row EXCEPT !.status = DONE]
  ELSE IF row.status = DONE THEN [row EXCEPT !.status = Pending]
  ELSE row

\* update_downloaded_status of rebuild_archive_from_files and modifier of
\* update_csv_from_archive: promote a row to done when its id is in ids
update_downloaded_status(row, ids) ==
  IF row.videoId \in ids /\ row.status # DONE
  THEN [row EXCEPT !.status = DONE]
  ELSE row

\* modify_csv_rows as its two callers use it: the rows written back, with
\* the promoting modifier applied to every row
modify_csv_rows(rs, ids) ==
  [k \in DOMAIN rs |-> update_downloaded_status(rs[k], ids)]

\* rebuild_archive_from_files: the entries read from the archive file
existing_entries(lines, preserve_existing) ==
  IF preserve_existing THEN Range(lines) ELSE {}

\* rebuild_archive_from_files: an entry for every file above 1 KiB
file_entries(dir) ==
  {<<"youtube", v>> : v \in {u \in VideoIds : dir[u] > MinFileSize}}

\* variant: the entries of the files are appended to the lines already there
downloaded_files_appended(lines, dir, preserve_existing) ==
  (IF preserve_existing THEN lines ELSE <<>>) \o sorted(file_entries(dir))

\* rebuild_archive_from_files: the sorted, duplicate-free list written back
downloaded_files(lines, dir, preserve_existing) ==
  sorted(existing_entries(lines, preserve_existing) \cup file_entries(dir))

\* rebuild_archive_from_files: entry.split(' ', 1)[1] of every entry
video_ids_set(entries) == {e[2] : e \in Range(entries)}

\* update_csv_from_archive: the ids of the lines that start with "youtube "
archived_ids(lines) == {l[2] : l \in {m \in Range(lines) : m[1] = "youtube"}}

\* the characters of a video id: a well-formed id is 11 characters, here one
\* that tells the ids apart and ten more; the short id is those ten, the
\* spaced id has a space among its 11, the empty id has none
id_chars(video_id) ==
  CASE video_id = EmptyId -> <<>>
    [] video_id = ShortId -> [i \in 1..10 |-> "x"]
    [] video_id = SpacedId -> [i \in 1..11 |-> IF i = 6 THEN " " ELSE "x"]
    [] OTHER -> <<ToString(video_id)>> \o [i \in 1..10 |-> "x"]

\* line.strip() of the archive line f"{tag} {video_id}\n"
line_chars(line) ==
  IF line[2] = EmptyId THEN <<line[1]>>
  ELSE <<line[1], " ">> \o id_chars(line[2])

\* str.endswith
endswith(s, t) ==
  Len(t) <= Len(s) /\ SubSeq(s, Len(s) - Len(t) + 1, Len(s)) = t

\* remove_from_archive: line.strip().endswith(video_id)
EndsWith(line, video_id) == endswith(line_chars(line), id_chars(video_id))

RECURSIVE SelectLines(_, _)
SelectLines(lines, video_id) ==
  IF lines = <<>> THEN <<>>
  ELSE IF EndsWith(Head(lines), video_id)
       THEN SelectLines(Tail(lines), video_id)
       ELSE <<Head(lines)>> \o SelectLines(Tail(lines), video_id)

\* remove_from_archive: the file is rewritten only when a line was dropped
remove_from_archive(lines, video_id) ==
  LET updated_lines == SelectLines(lines, video_id)
  IN IF Len(updated_lines) < Len(lines) THEN updated_lines ELSE lines

\* variant: the line is written without the "youtube" tag
add_to_archive_untagged(lines, video_id) == Append(lines, <<"other", video_id>>)

\* add_to_archive: append "youtube <id>"
add_to_archive(lines, video_id) == Append(lines, <<"youtube", video_id>>)

\* download_batch, except DownloadError: the branch taken for a message
error_branch(msg) ==
  IF "captcha" \in msg \/ "challenge" \in msg THEN "captcha"
  ELSE IF "ssl" \in msg \/ "eof" \in msg \/ "connection" \in msg THEN "ssl"
  ELSE IF "unavailable" \in msg THEN "unavailable"
  ELSE "other"

\* variant: an unclassified error leaves the status the item was given
branch_status_leaving(branch) ==
  CASE branch = "captcha" -> CAPTCHA_CHALLENGE
    [] branch = "unavailable" -> UNAVAILABLE
    [] OTHER -> IN_PROGRESS

\* download_batch: the status written in each branch that does not retry
branch_status(branch) ==
  CASE branch = "captcha" -> CAPTCHA_CHALLENGE
    [] branch = "unavailable" -> UNAVAILABLE
    [] OTHER -> FAILED

\* variant: a capability call that returned is trusted without verification
after_download_trusting(verified) == [status |-> DONE, archive |-> "add"]

\* download_batch, after ydl.download returned: the status written and the
\* archive call that follows it
after_download(verified) ==
  IF verified THEN [status |-> DONE, archive |-> "add"]
  ELSE [status |-> FAILED, archive |-> "remove"]

\* variant: the video is put into the archive whatever the retry did
after_retry_archiving(verified) ==
  [status |-> IF verified THEN DONE ELSE SSL_RETRY, archive |-> "add"]

\* variant: the result of the retry is ignored
after_retry_ignored(verified) == [status |-> SSL_RETRY, archive |-> "remove"]

\* download_batch, after the retry returned or raised: the same for the retry
after_retry(verified) ==
  IF verified THEN [status |-> DONE, archive |-> "add"]
  ELSE [status |-> SSL_RETRY, archive |-> "remove"]

\* len(video_id)
id_len(video_id) ==
  CASE video_id = EmptyId -> 0
    [] video_id = ShortId -> 10
    [] OTHER -> 11

\* ' ' in video_id or ',' in video_id
id_has_separator(video_id) == video_id = SpacedId

\* ErrorAnalyzer._check_corrupted_entries: the test for an invalid video id
corrupted(video_id) ==
  video_id = EmptyId \/ id_len(video_id) # 11 \/ id_has_separator(video_id)

\* load_videos_from_csv: the rows that have a videoId and, when a channel is
\* given, belong to it
load_rows(rs, channel) ==
  SelectSeq(rs, LAMBDA row : /\ row.videoId # EmptyId
                             /\ (channel # NoChannel => row.channelId = channel))

\* variant: only rows that were never touched are downloaded
to_download_new_only(row) == row.status = Pending

\* variant: a row left in_progress is taken for one being downloaded
to_download_skipping_in_progress(row) ==
  row.status \notin {DONE, UNAVAILABLE, IN_PROGRESS}

\* load_videos_from_csv: the status test of the rows to download
to_download(row) == row.status \notin {DONE, UNAVAILABLE}

\* load_videos_from_csv: the ids of the rows to download, in file order
RECURSIVE video_ids(_)
video_ids(rs) ==
  IF rs = <<>> THEN <<>>
  ELSE IF to_download(Head(rs))
       THEN <<Head(rs).videoId>> \o video_ids(Tail(rs))
       ELSE video_ids(Tail(rs))

\* random.shuffle(urls): any permutation of the list
Shuffles(s) == {[k \in DOMAIN s |-> s[p[k]]] : p \in Perms(DOMAIN s)}

\* what a call of the extraction capability may do: return or raise, with a
\* message, leaving a file of some size for the video
Outcomes ==
  [raises : {"none"}, msg : {{}}, size : LeftSizes]
    \cup [raises : {"DownloadError"}, msg : Messages, size : LeftSizes]
    \cup [raises : {"Exception"}, msg : {{}}, size : LeftSizes]

\* variant: the delay grows by a tenth of a second
backoff_linear(delay) == delay + 1

\* update_csv_status: retry_delay *= 2
backoff(delay) == delay * 2

----------------------------------------------------------------------------
(* The ledger file and its inodes *)

OpenFds == {fd[w] : w \in Workers} \ {NoFd}

\* the lowest inode number no open descriptor refers to
NewIno(keep) == CHOOSE i \in Inodes \ keep : \A j \in Inodes \ keep : i <= j

\* temp_file.replace(config.CSV_FILE): the path names a new inode holding
\* newRows; an inode that neither the path nor a descriptor names is freed
Replace(newRows, keep) ==
  LET n == NewIno(keep)
  IN /\ csvIno' = n
     /\ files' = [i \in Inodes |->
                    IF i = n THEN newRows
                    ELSE IF i \in keep THEN files[i] ELSE <<>>]

----------------------------------------------------------------------------
\* the cleanup tool is not run
CleanerIdle ==
  /\ dirfiles = <<>>
  /\ cpc = "idle"
  /\ cstats = <<>>

\* a process that has just started: nothing submitted, every worker idle
ThreadsStart ==
  /\ flock = [i \in Inodes |-> 0]
  /\ foreign = 0
  /\ idx = 0
  /\ futures = <<>>
  /\ totals = <<0, 0>>
  /\ wpc = [w \in Workers |-> "idle"]
  /\ wfut = [w \in Workers |-> 0]
  /\ wbatch = [w \in Workers |-> <<>>]
  /\ wsuccess = [w \in Workers |-> 0]
  /\ ucsStatus = [w \in Workers |-> ""]
  /\ ucsRet = [w \in Workers |-> ""]
  /\ fd = [w \in Workers |-> NoFd]
  /\ rows = [w \in Workers |-> <<>>]
  /\ found = [w \in Workers |-> FALSE]
  /\ rebuilt = FALSE
  /\ ucsAttempt = [w \in Workers |-> 0]
  /\ ucsDelay = [w \in Workers |-> retry_delay]
  /\ ucsSlept = [w \in Workers |-> <<>>]
  /\ calls = 0
  /\ crashes = 0
  /\ mpc = "idle"
  /\ mrows = <<>>
  /\ alines = [w \in Workers |-> <<>>]

\* a process that has just started, and no capability call made yet
ProcessStart ==
  /\ ThreadsStart
  /\ attempts = [v \in VideoIds |-> <<>>]
  /\ CleanerIdle

\* config.CSV_FILE.exists()
LedgerExists == csvIno # NoIno

\* the ledger file holds the rows rs
LedgerIs(rs) ==
  /\ csvIno = 1
  /\ files = [i \in Inodes |-> IF i = 1 THEN rs ELSE <<>>]

\* there is no ledger file
LedgerMissing ==
  /\ csvIno = NoIno
  /\ files = [i \in Inodes |-> <<>>]

Init ==
  /\ \E n \in 0..MaxVideos : \E st \in [1..n -> InitStatuses] :
       LedgerIs([k \in 1..n |-> [videoId |-> k, status |-> st[k],
                                  channelId |-> "UC1"]])
  /\ archive \in SeqsUpTo(Lines, MaxArchive0)
  /\ done0 = {v \in VideoIds : StatusOf(files[1], v) = DONE}
  /\ archived0 = video_ids_set(archive)
  /\ outdir \in [VideoIds -> FileSizes]
  /\ pcMain = "start"
  /\ urls = <<>>
  /\ channel_id = NoChannel
  /\ ProcessStart

----------------------------------------------------------------------------
(* The main thread *)

\* rebuild_archive_from_files(preserve_existing=True): rewrite the archive,
\* then promote the ledger rows of its ids through modify_csv_rows
rebuild_archive_from_files(preserve_existing) ==
  LET entries == downloaded_files(archive, outdir, preserve_existing)
  IN /\ archive' = entries
     /\ IF LedgerExists
        THEN Replace(modify_csv_rows(ledger, video_ids_set(entries)), {})
        ELSE UNCHANGED <<files, csvIno>>

\* the call of main and of --rebuild-archive: preserve_existing=True
RebuildEffect == rebuild_archive_from_files(TRUE)

\* __main__ with --rebuild-archive: rebuild and exit
RebuildArchiveOnly ==
  /\ pcMain = "start"
  /\ RebuildEffect
  /\ rebuilt' = TRUE
  /\ UNCHANGED <<flock, outdir, foreign, mainVars, workerVars, histVars, retryVars,
                 auxVars>>

\* main: the rebuild it starts with
MainRebuild ==
  /\ pcMain = "start"
  /\ RebuildEffect
  /\ pcMain' = "load"
  /\ rebuilt' = FALSE
  /\ UNCHANGED <<flock, outdir, foreign, urls, idx, futures, totals, workerVars,
                 histVars, retryVars, auxVars>>

\* variant: without a ledger file there is nothing to download
after_load_returning(exists, u) == IF u = <<>> THEN "done" ELSE "submit"

\* where main goes on after load_videos_from_csv: sys.exit(1) when
\* config.CSV_FILE does not exist, its return when the list is empty, the
\* executor otherwise
after_load(exists, u) ==
  IF ~exists THEN "exit1" ELSE IF u = <<>> THEN "done" ELSE "submit"

\* load_videos_from_csv, and main's return when there is nothing to download
LoadVideos ==
  /\ pcMain = "load"
  /\ \E u \in (IF LedgerExists
               THEN Shuffles(video_ids(load_rows(ledger, channel_id)))
               ELSE {<<>>}) :
       /\ urls' = u
       /\ pcMain' = after_load(LedgerExists, u)
  /\ UNCHANGED <<storeVars, idx, futures, totals, workerVars, histVars, rebuilt, retryVars,
                 auxVars>>

\* variant: the slice is one url too long
batch_urls_long(us, i, batch_size) ==
  SubSeq(us, i + 1, IF i + batch_size + 1 <= Len(us) THEN i + batch_size + 1
                    ELSE Len(us))

\* variant: every slice starts at the head of the list
batch_urls_from_head(us, i, batch_size) ==
  SubSeq(us, 1, IF batch_size <= Len(us) THEN batch_size ELSE Len(us))

\* main: urls[i:i + batch_size]
batch_urls(us, i, batch_size) ==
  SubSeq(us, i + 1, IF i + batch_size <= Len(us) THEN i + batch_size ELSE Len(us))

\* variant: a pause follows every submission
after_submit_pausing(i, n) == "pause"

\* main: `if i < len(urls): batch_pause()`, and the end of the while loop
after_submit(i, n) == IF i < n THEN "pause" ELSE "wait"

\* main: one turn of the while loop up to the pause, with batch_size drawn
\* by random.randint(lo, hi)
Submit(lo, hi) ==
  /\ pcMain = "submit"
  /\ \E batch_size \in lo..hi :
       LET batch == batch_urls(urls, idx, batch_size)
       IN /\ futures' = Append(futures,
                           [urls |-> batch, st |-> "queued", success |-> 0])
          /\ idx' = idx + Len(batch)
          /\ pcMain' = after_submit(idx + Len(batch), Len(urls))
  /\ UNCHANGED <<storeVars, urls, totals, workerVars, histVars, rebuilt, retryVars,
                 auxVars>>

\* the while loop of main with the scaled batch sizes
SubmitBatch == Submit(MIN_BATCH_SIZE, MAX_BATCH_SIZE)

\* batch_pause: the sleep between two submissions
BatchPause ==
  /\ pcMain = "pause"
  /\ pcMain' = "submit"
  /\ UNCHANGED <<storeVars, urls, idx, futures, totals, workerVars, histVars, rebuilt, retryVars,
                 auxVars>>

RECURSIVE SumSuccess(_)
SumSuccess(fs) ==
  IF fs = <<>> THEN 0 ELSE Head(fs).success + SumSuccess(Tail(fs))

\* main: the as_completed loop and the end of the executor's with block
AwaitAll ==
  /\ pcMain = "wait"
  /\ \A k \in DOMAIN futures : futures[k].st = "done"
  /\ totals' = <<SumSuccess(futures), Len(urls) - SumSuccess(futures)>>
  /\ pcMain' = "fold"
  /\ UNCHANGED <<storeVars, urls, idx, futures, workerVars, histVars, rebuilt, retryVars,
                 auxVars>>

\* update_csv_from_archive, the fold that ends main
Fold ==
  /\ pcMain = "fold"
  /\ Replace(modify_csv_rows(ledger, archived_ids(archive)), {})
  /\ pcMain' = "done"
  /\ UNCHANGED <<flock, archive, outdir, foreign, urls, idx, futures, totals, workerVars,
                 histVars, rebuilt, retryVars,
                 auxVars>>

----------------------------------------------------------------------------
(* The workers of the ThreadPoolExecutor: download_batch *)

\* the video the worker is processing
Cur(w) == Head(wbatch[w])

\* update_csv_status up to the open of config.CSV_FILE ('r+'): the descriptor
\* refers to the inode the path names at this moment
CallUcs(w, status, ret) ==
  /\ ucsStatus' = [ucsStatus EXCEPT ![w] = status]
  /\ ucsRet' = [ucsRet EXCEPT ![w] = ret]
  /\ ucsAttempt' = [ucsAttempt EXCEPT ![w] = 0]
  /\ ucsDelay' = [ucsDelay EXCEPT ![w] = retry_delay]
  /\ ucsSlept' = [ucsSlept EXCEPT ![w] = <<>>]
  /\ fd' = [fd EXCEPT ![w] = csvIno]
  /\ wpc' = [wpc EXCEPT ![w] = "ucs_lock"]

\* the executor hands the oldest queued batch to an idle worker thread (the
\* threads are interchangeable: the lowest idle one takes it)
TakeBatch(w) ==
  /\ wpc[w] = "idle"
  /\ \A v \in Workers : v < w => wpc[v] # "idle"
  /\ \E f \in DOMAIN futures :
       /\ futures[f].st = "queued"
       /\ \A g \in DOMAIN futures : g < f => futures[g].st # "queued"
       /\ futures' = [futures EXCEPT ![f].st = "running"]
       /\ wfut' = [wfut EXCEPT ![w] = f]
       /\ wbatch' = [wbatch EXCEPT ![w] = futures[f].urls]
  /\ wsuccess' = [wsuccess EXCEPT ![w] = 0]
  /\ wpc' = [wpc EXCEPT ![w] = "item"]
  /\ UNCHANGED <<storeVars, pcMain, urls, idx, totals, ucsStatus, ucsRet, fd,
                 rows, found, histVars, rebuilt, retryVars,
                 auxVars>>

\* download_batch: update_csv_status(video_id, IN_PROGRESS) of the next url
StartItem(w) ==
  /\ wpc[w] = "item"
  /\ CallUcs(w, IN_PROGRESS, "verify")
  /\ UNCHANGED <<storeVars, mainVars, wfut, wbatch, wsuccess, rows, found,
                 histVars, rebuilt, auxVars>>

\* update_csv_status: flock(LOCK_EX) on the open descriptor, then the read of
\* its rows with the new status set in the matching row
UcsLock(w) ==
  /\ wpc[w] = "ucs_lock"
  /\ flock[fd[w]] = 0
  /\ flock' = [flock EXCEPT ![fd[w]] = w]
  /\ rows' = [rows EXCEPT ![w] = SetStatus(files[fd[w]], Cur(w), ucsStatus[w])]
  /\ found' = [found EXCEPT ![w] = HasRow(files[fd[w]], Cur(w))]
  /\ wpc' = [wpc EXCEPT ![w] = "ucs_replace"]
  /\ UNCHANGED <<files, csvIno, archive, outdir, foreign, mainVars, wfut, wbatch,
                 wsuccess, ucsStatus, ucsRet, fd, histVars, rebuilt, retryVars,
                 auxVars>>

\* update_csv_status: if found, write the temp file and rename it over the path
UcsReplace(w) ==
  /\ wpc[w] = "ucs_replace"
  /\ IF found[w] THEN Replace(rows[w], OpenFds)
     ELSE UNCHANGED <<files, csvIno>>
  /\ wpc' = [wpc EXCEPT ![w] = "ucs_unlock"]
  /\ UNCHANGED <<flock, archive, outdir, foreign, mainVars, wfut, wbatch, wsuccess,
                 ucsStatus, ucsRet, fd, rows, found, histVars, rebuilt, retryVars,
                 auxVars>>

\* update_csv_status: flock(LOCK_UN), close of csvfile, return
UcsUnlock(w) ==
  /\ wpc[w] = "ucs_unlock"
  /\ flock' = [flock EXCEPT ![fd[w]] = 0]
  /\ fd' = [fd EXCEPT ![w] = NoFd]
  /\ files' = [i \in Inodes |->
                 IF i = csvIno \/ (\E v \in Workers \ {w} : fd[v] = i)
                 THEN files[i] ELSE <<>>]
  /\ rows' = [rows EXCEPT ![w] = <<>>]
  /\ found' = [found EXCEPT ![w] = FALSE]
  /\ wpc' = [wpc EXCEPT ![w] = ucsRet[w]]
  /\ UNCHANGED <<csvIno, archive, outdir, foreign, mainVars, wfut, wbatch, wsuccess,
                 ucsStatus, ucsRet, histVars, rebuilt, retryVars,
                 auxVars>>

\* download_batch: the check for a file that is already there
VerifyExisting(w) ==
  /\ wpc[w] = "verify"
  /\ IF verify_downloaded_file(outdir, Cur(w))
     THEN /\ wsuccess' = [wsuccess EXCEPT ![w] = @ + 1]
          /\ CallUcs(w, DONE, "continue")
     ELSE /\ wpc' = [wpc EXCEPT ![w] = "download"]
          /\ UNCHANGED <<wsuccess, ucsStatus, ucsRet, fd, retryVars>>
  /\ UNCHANGED <<storeVars, mainVars, wfut, wbatch, rows, found, histVars, rebuilt, auxVars>>

\* the record kept of a capability call: "ok" when it returned and left a
\* file that verifies, "unverified" when it returned and left none,
\* "unavailable" or "connection" when it raised a
\* DownloadError whose text has only that kind of recognised word, "failed"
\* in every other case
Attempt(out, dir, video_id) ==
  CASE out.raises = "none" /\ verify_downloaded_file(dir, video_id) -> "ok"
    [] out.raises = "none" /\ ~verify_downloaded_file(dir, video_id) -> "unverified"
    [] out.raises = "DownloadError" /\ out.msg = {"unavailable"} -> "unavailable"
    [] out.raises = "DownloadError" /\ out.msg # {}
         /\ out.msg \subseteq {"ssl", "eof", "connection"} -> "connection"
    [] OTHER -> "failed"

\* download_batch: ydl.download([url]) and the branch its outcome selects
Download(w) ==
  /\ wpc[w] = "download"
  /\ \E out \in Outcomes :
       LET dir == [outdir EXCEPT ![Cur(w)] = out.size]
           verified == verify_downloaded_file(dir, Cur(w))
       IN /\ outdir' = dir
          /\ attempts' = [attempts EXCEPT ![Cur(w)] = Append(@, Attempt(out, dir, Cur(w)))]
          /\ CASE out.raises = "none" ->
                    /\ wsuccess' = [wsuccess EXCEPT ![w] = IF verified THEN @ + 1 ELSE @]
                    /\ CallUcs(w, after_download(verified).status,
                               after_download(verified).archive)
               [] out.raises = "DownloadError" /\ error_branch(out.msg) = "ssl" ->
                    /\ wpc' = [wpc EXCEPT ![w] = "retry"]
                    /\ UNCHANGED <<wsuccess, ucsStatus, ucsRet, fd, retryVars>>
               [] out.raises = "DownloadError" /\ error_branch(out.msg) # "ssl" ->
                    /\ CallUcs(w, branch_status(error_branch(out.msg)), "remove")
                    /\ UNCHANGED wsuccess
               [] out.raises = "Exception" ->
                    /\ CallUcs(w, FAILED, "remove")
                    /\ UNCHANGED wsuccess
  /\ UNCHANGED <<files, csvIno, flock, archive, foreign, mainVars, wfut, wbatch, rows,
                 found, done0, archived0, rebuilt, auxVars>>

\* download_batch: after the 10 s sleep, retry_ydl.download([url]), once
Retry(w) ==
  /\ wpc[w] = "retry"
  /\ \E out \in Outcomes :
       LET dir == [outdir EXCEPT ![Cur(w)] = out.size]
           verified == out.raises = "none" /\ verify_downloaded_file(dir, Cur(w))
       IN /\ outdir' = dir
          /\ attempts' = [attempts EXCEPT ![Cur(w)] = Append(@, Attempt(out, dir, Cur(w)))]
          /\ wsuccess' = [wsuccess EXCEPT ![w] = IF verified THEN @ + 1 ELSE @]
          /\ CallUcs(w, after_retry(verified).status, after_retry(verified).archive)
  /\ UNCHANGED <<files, csvIno, flock, archive, foreign, mainVars, wfut, wbatch, rows,
                 found, done0, archived0, rebuilt, auxVars>>

\* download_batch: the end of one turn of the for loop, and after the last
\* url the return of (success, fail, ...), which completes the future
NextUrl(w) ==
  IF Tail(wbatch[w]) # <<>>
  THEN /\ wbatch' = [wbatch EXCEPT ![w] = Tail(@)]
       /\ wpc' = [wpc EXCEPT ![w] = "item"]
       /\ UNCHANGED <<futures, wfut, wsuccess>>
  ELSE /\ wbatch' = [wbatch EXCEPT ![w] = <<>>]
       /\ wpc' = [wpc EXCEPT ![w] = "idle"]
       /\ futures' = [futures EXCEPT ![wfut[w]].st = "done",
                                     ![wfut[w]].success = wsuccess[w]]
       /\ wfut' = [wfut EXCEPT ![w] = 0]
       /\ wsuccess' = [wsuccess EXCEPT ![w] = 0]

\* download_batch: continue after a file that was already there
Continue(w) ==
  /\ wpc[w] = "continue"
  /\ NextUrl(w)
  /\ UNCHANGED <<storeVars, pcMain, urls, idx, totals, ucsStatus, ucsRet, fd,
                 rows, found, histVars, rebuilt, retryVars,
                 auxVars>>

\* download_batch: add_to_archive(video_id) after a status done
ArchiveAdd(w) ==
  /\ wpc[w] = "add"
  /\ archive' = add_to_archive(archive, Cur(w))
  /\ NextUrl(w)
  /\ UNCHANGED <<files, csvIno, flock, outdir, foreign, pcMain, urls, idx, totals,
                 ucsStatus, ucsRet, fd, rows, found, histVars, rebuilt, retryVars,
                 auxVars>>

\* download_batch: remove_from_archive(video_id) after any other status
ArchiveRemove(w) ==
  /\ wpc[w] = "remove"
  /\ archive' = remove_from_archive(archive, Cur(w))
  /\ NextUrl(w)
  /\ UNCHANGED <<files, csvIno, flock, outdir, foreign, pcMain, urls, idx, totals,
                 ucsStatus, ucsRet, fd, rows, found, histVars, rebuilt, retryVars,
                 auxVars>>

----------------------------------------------------------------------------
(* The environment *)

\* while main runs, a complete file of a video appears in OUTPUT_DIR that no
\* capability call of this run wrote (another downloader process on the same
\* directory, or the operator): the case the check of download_batch for an
\* already downloaded file is there for
ForeignFile(v) ==
  /\ pcMain \in {"load", "submit", "pause", "wait"}
  /\ foreign < MaxForeignFiles
  /\ ~verify_downloaded_file(outdir, v)
  /\ outdir' = [outdir EXCEPT ![v] = MinFileSize + 1]
  /\ foreign' = foreign + 1
  /\ UNCHANGED <<files, csvIno, flock, archive, mainVars, workerVars, histVars, rebuilt, retryVars,
                 auxVars>>

----------------------------------------------------------------------------
Next ==
  \/ RebuildArchiveOnly
  \/ MainRebuild
  \/ LoadVideos
  \/ SubmitBatch
  \/ BatchPause
  \/ AwaitAll
  \/ Fold
  \/ \E w \in Workers : TakeBatch(w)
  \/ \E w \in Workers : StartItem(w)
  \/ \E w \in Workers : UcsLock(w)
  \/ \E w \in Workers : UcsReplace(w)
  \/ \E w \in Workers : UcsUnlock(w)
  \/ \E w \in Workers : VerifyExisting(w)
  \/ \E w \in Workers : Download(w)
  \/ \E w \in Workers : Retry(w)
  \/ \E w \in Workers : Continue(w)
  \/ \E w \in Workers : ArchiveAdd(w)
  \/ \E w \in Workers : ArchiveRemove(w)
  \/ \E v \in VideoIds : ForeignFile(v)

Spec == Init /\ [][Next]_vars

----------------------------------------------------------------------------
(* load_videos_from_csv applied to any ledger *)

\* the rows a ledger may hold: any id, any status, either channel
LoadRows == [videoId : VideoIds \cup MalformedIds, status : Statuses,
             channelId : Channels]

\* main has rebuilt the archive of an empty OUTPUT_DIR and is about to load
InitLoad ==
  /\ \E rs \in SeqsUpTo(LoadRows, MaxLoadRows) : LedgerIs(rs)
  /\ archive = <<>>
  /\ done0 = {v \in VideoIds : StatusOf(files[1], v) = DONE}
  /\ archived0 = {}
  /\ outdir = [v \in VideoIds |-> 0]
  /\ pcMain = "load"
  /\ urls = <<>>
  /\ channel_id \in Channels \cup {NoChannel}
  /\ ProcessStart

NextLoad == LoadVideos

SpecLoad == InitLoad /\ [][NextLoad]_vars

----------------------------------------------------------------------------
(* A batch that raises, and the operator's interrupt *)

\* download_batch: verify_downloaded_file, called before the try, raises (an
\* OSError of exists() or stat()): the exception leaves download_batch and
\* becomes the exception of the batch's future
VerifyRaises(w) ==
  /\ wpc[w] = "verify"
  /\ futures' = [futures EXCEPT ![wfut[w]].st = "raised"]
  /\ wpc' = [wpc EXCEPT ![w] = "idle"]
  /\ wbatch' = [wbatch EXCEPT ![w] = <<>>]
  /\ wfut' = [wfut EXCEPT ![w] = 0]
  /\ wsuccess' = [wsuccess EXCEPT ![w] = 0]
  /\ UNCHANGED <<storeVars, pcMain, urls, idx, totals, ucsStatus, ucsRet, fd,
                 rows, found, histVars, rebuilt, retryVars, auxVars>>

\* main: future.result() of a batch that raised re-raises in the as_completed
\* loop, which leaves the with block of the executor
ResultRaises ==
  /\ pcMain = "wait"
  /\ \E k \in DOMAIN futures : futures[k].st = "raised"
  /\ pcMain' = "shutdown"
  /\ UNCHANGED <<storeVars, urls, idx, futures, totals, workerVars, histVars,
                 rebuilt, retryVars, auxVars>>

\* variant: the executor is left without waiting for its threads
shutdown_nowait(fs) == TRUE

\* ThreadPoolExecutor.__exit__: shutdown(wait=True) returns when every
\* submitted batch has run
shutdown_wait(fs) == \A k \in DOMAIN fs : fs[k].st \in {"done", "raised"}

\* main: the end of the with block on the way of an exception, which then
\* ends main ("aborted") or, for a KeyboardInterrupt, is logged ("stopped")
ShutdownWait ==
  /\ pcMain \in {"shutdown", "interrupted"}
  /\ shutdown_wait(futures)
  /\ pcMain' = IF pcMain = "shutdown" THEN "aborted" ELSE "stopped"
  /\ UNCHANGED <<storeVars, urls, idx, futures, totals, workerVars, histVars,
                 rebuilt, retryVars, auxVars>>

\* KeyboardInterrupt in the main thread while it loads the videos
InterruptLoad ==
  /\ pcMain = "load"
  /\ pcMain' = "stopped"
  /\ UNCHANGED <<storeVars, urls, idx, futures, totals, workerVars, histVars,
                 rebuilt, retryVars, auxVars>>

\* KeyboardInterrupt in the main thread inside the with block of the
\* executor: in the while loop, in batch_pause or in the as_completed loop
InterruptPool ==
  /\ pcMain \in {"submit", "pause", "wait"}
  /\ pcMain' = "interrupted"
  /\ UNCHANGED <<storeVars, urls, idx, futures, totals, workerVars, histVars,
                 rebuilt, retryVars, auxVars>>

\* variant: the rows are written over the ledger file itself
interrupted_rewrite_in_place(old, new) == {SubSeq(new, 1, k) : k \in 0..Len(new)}

\* atomic_csv_update left by a KeyboardInterrupt: what the ledger path holds
\* afterwards, the old rows before temp_file.replace and the new ones after
interrupted_rewrite(old, new) == {old, new}

\* KeyboardInterrupt in the main thread during update_csv_from_archive
InterruptFold ==
  /\ pcMain = "fold"
  /\ \E rs \in interrupted_rewrite(ledger,
                                    modify_csv_rows(ledger, archived_ids(archive))) :
       Replace(rs, {})
  /\ pcMain' = "stopped"
  /\ UNCHANGED <<flock, archive, outdir, foreign, urls, idx, futures, totals,
                 workerVars, histVars, rebuilt, retryVars, auxVars>>

\* KeyboardInterrupt in the main thread during rebuild_archive_from_files:
\* before the archive is opened for writing, while its lines are written, or
\* later, during modify_csv_rows
InterruptRebuild ==
  /\ pcMain = "start"
  /\ LET entries == downloaded_files(archive, outdir, TRUE)
     IN \/ UNCHANGED <<archive, files, csvIno>>
        \/ /\ \E k \in 0..Len(entries) : archive' = SubSeq(entries, 1, k)
           /\ UNCHANGED <<files, csvIno>>
        \/ /\ archive' = entries
           /\ \E rs \in interrupted_rewrite(ledger,
                            modify_csv_rows(ledger, video_ids_set(entries))) :
                Replace(rs, {})
  /\ pcMain' = "stopped"
  /\ UNCHANGED <<flock, outdir, foreign, urls, idx, futures, totals, workerVars,
                 histVars, rebuilt, retryVars, auxVars>>

\* a run that starts with a row for every video, none of them downloaded
InitFault ==
  /\ \E st \in [VideoIds -> {Pending, IN_PROGRESS}] :
       LedgerIs([k \in VideoIds |-> [videoId |-> k, status |-> st[k],
                                     channelId |-> "UC1"]])
  /\ archive = <<>>
  /\ done0 = {}
  /\ archived0 = {}
  /\ outdir = [v \in VideoIds |-> 0]
  /\ pcMain = "start"
  /\ urls = <<>>
  /\ channel_id = NoChannel
  /\ ProcessStart

\* the run of main and its workers on an OUTPUT_DIR nothing else writes to
NextFault ==
  \/ MainRebuild
  \/ LoadVideos
  \/ SubmitBatch
  \/ BatchPause
  \/ AwaitAll
  \/ Fold
  \/ \E w \in Workers : TakeBatch(w)
  \/ \E w \in Workers : StartItem(w)
  \/ \E w \in Workers : UcsLock(w)
  \/ \E w \in Workers : UcsReplace(w)
  \/ \E w \in Workers : UcsUnlock(w)
  \/ \E w \in Workers : VerifyExisting(w)
  \/ \E w \in Workers : Download(w)
  \/ \E w \in Workers : Retry(w)
  \/ \E w \in Workers : ArchiveAdd(w)
  \/ \E w \in Workers : ArchiveRemove(w)
  \/ \E w \in Workers : VerifyRaises(w)
  \/ ResultRaises
  \/ ShutdownWait
  \/ InterruptRebuild
  \/ InterruptLoad
  \/ InterruptPool
  \/ InterruptFold

SpecFault == InitFault /\ [][NextFault]_vars

----------------------------------------------------------------------------
(* update_csv_status called directly, with locking and I/O errors *)

\* a caller on a pool thread calls update_csv_status(video_id, status)
UcsCall(w, video_id, status) ==
  /\ wpc[w] = "idle"
  /\ calls < MaxCalls
  /\ calls' = calls + 1
  /\ wbatch' = [wbatch EXCEPT ![w] = <<video_id>>]
  /\ CallUcs(w, status, "returned")
  /\ UNCHANGED <<storeVars, mainVars, wfut, wsuccess, rows, found, histVars,
                 rebuilt, channel_id, cleanVars, crashes, procVars, alines>>

\* the caller goes on after the call
UcsReturned(w) ==
  /\ wpc[w] = "returned"
  /\ wpc' = [wpc EXCEPT ![w] = "idle"]
  /\ wbatch' = [wbatch EXCEPT ![w] = <<>>]
  /\ UNCHANGED <<storeVars, mainVars, wfut, wsuccess, ucsStatus, ucsRet, fd, rows,
                 found, histVars, rebuilt, retryVars, auxVars>>

\* update_csv_status: an IOError or OSError in this attempt: raised by open
\* or flock (position ucs_lock), or by the read, the write of the temp file
\* or the rename (position ucs_replace, where the finally unlocks); csvfile
\* is closed, the temp file is unlinked, and except the last time the thread
\* sleeps retry_delay and doubles it
UcsIOError(w) ==
  /\ wpc[w] \in {"ucs_lock", "ucs_replace"}
  /\ flock' = [i \in Inodes |-> IF flock[i] = w THEN 0 ELSE flock[i]]
  /\ fd' = [fd EXCEPT ![w] = NoFd]
  /\ files' = [i \in Inodes |->
                 IF i = csvIno \/ (\E v \in Workers \ {w} : fd[v] = i)
                 THEN files[i] ELSE <<>>]
  /\ rows' = [rows EXCEPT ![w] = <<>>]
  /\ found' = [found EXCEPT ![w] = FALSE]
  /\ IF ucsAttempt[w] < max_retries - 1
     THEN /\ ucsSlept' = [ucsSlept EXCEPT ![w] = Append(@, ucsDelay[w])]
          /\ ucsDelay' = [ucsDelay EXCEPT ![w] = backoff(@)]
          /\ ucsAttempt' = [ucsAttempt EXCEPT ![w] = @ + 1]
          /\ wpc' = [wpc EXCEPT ![w] = "ucs_open"]
     ELSE /\ wpc' = [wpc EXCEPT ![w] = ucsRet[w]]
          /\ UNCHANGED retryVars
  /\ UNCHANGED <<csvIno, archive, outdir, foreign, mainVars, wfut, wbatch, wsuccess,
                 ucsStatus, ucsRet, histVars, rebuilt, auxVars>>

\* update_csv_status: the next turn of the retry loop opens config.CSV_FILE
UcsReopen(w) ==
  /\ wpc[w] = "ucs_open"
  /\ fd' = [fd EXCEPT ![w] = csvIno]
  /\ wpc' = [wpc EXCEPT ![w] = "ucs_lock"]
  /\ UNCHANGED <<storeVars, mainVars, wfut, wbatch, wsuccess, ucsStatus, ucsRet,
                 rows, found, histVars, rebuilt, retryVars, auxVars>>

\* the rows of the ledgers update_csv_status is called on
UcsRows == [videoId : VideoIds, status : {Pending}, channelId : Channels]
\* the status arguments of the calls
CallStatuses == {IN_PROGRESS, DONE}

InitUcs ==
  /\ \E rs \in SeqsUpTo(UcsRows, MaxUcsRows) : LedgerIs(rs)
  /\ archive = <<>>
  /\ done0 = {v \in VideoIds : StatusOf(files[1], v) = DONE}
  /\ archived0 = {}
  /\ outdir = [v \in VideoIds |-> 0]
  /\ pcMain = "wait"
  /\ urls = <<>>
  /\ channel_id = NoChannel
  /\ ProcessStart

NextUcs ==
  \/ \E w \in Workers, v \in VideoIds, st \in CallStatuses : UcsCall(w, v, st)
  \/ \E w \in Workers : UcsLock(w)
  \/ \E w \in Workers : UcsReplace(w)
  \/ \E w \in Workers : UcsUnlock(w)
  \/ \E w \in Workers : UcsIOError(w)
  \/ \E w \in Workers : UcsReopen(w)
  \/ \E w \in Workers : UcsReturned(w)

SpecUcs == InitUcs /\ [][NextUcs]_vars

----------------------------------------------------------------------------
(* update_csv_status on every exit path, with threads that keep running *)

\* variant: the finally clause does not unlock
flock_un_skipped(locks, w) == locks

\* update_csv_status: the finally clause, fcntl.flock(csvfile.fileno(),
\* fcntl.LOCK_UN), and the close of csvfile at the end of the with block
flock_un(locks, w) == [i \in Inodes |-> IF locks[i] = w THEN 0 ELSE locks[i]]

\* update_csv_status: an exception that is no IOError or OSError while the
\* rows are read or written under the lock (csv.Error, UnicodeDecodeError):
\* the finally unlocks, `except Exception` logs and breaks, the call returns
UcsUnexpected(w) ==
  /\ wpc[w] = "ucs_replace"
  /\ flock' = flock_un(flock, w)
  /\ fd' = [fd EXCEPT ![w] = NoFd]
  /\ files' = [i \in Inodes |->
                 IF i = csvIno \/ (\E v \in Workers \ {w} : fd[v] = i)
                 THEN files[i] ELSE <<>>]
  /\ rows' = [rows EXCEPT ![w] = <<>>]
  /\ found' = [found EXCEPT ![w] = FALSE]
  /\ wpc' = [wpc EXCEPT ![w] = ucsRet[w]]
  /\ UNCHANGED <<csvIno, archive, outdir, foreign, mainVars, wfut, wbatch, wsuccess,
                 ucsStatus, ucsRet, histVars, rebuilt, retryVars, auxVars>>

\* a ledger with the row of one video: a call for another id finds no row
InitUcsPaths ==
  /\ LedgerIs(<<[videoId |-> 1, status |-> Pending, channelId |-> "UC1"]>>)
  /\ archive = <<>>
  /\ done0 = {}
  /\ archived0 = {}
  /\ outdir = [v \in VideoIds |-> 0]
  /\ pcMain = "wait"
  /\ urls = <<>>
  /\ channel_id = NoChannel
  /\ ProcessStart

\* the steps a thread inside update_csv_status takes by itself
UcsStep(w) ==
  \/ UcsLock(w)
  \/ UcsReplace(w)
  \/ UcsUnlock(w)
  \/ UcsReopen(w)
  \/ UcsReturned(w)

NextUcsPaths ==
  \/ \E w \in Workers, v \in VideoIds : UcsCall(w, v, DONE)
  \/ \E w \in Workers : UcsStep(w)
  \/ \E w \in Workers : UcsIOError(w)
  \/ \E w \in Workers : UcsUnexpected(w)

\* a thread that can take a step takes it (the operating system runs every
\* thread, and flock returns once the lock is free); errors are not owed
SpecUcsPaths ==
  InitUcsPaths /\ [][NextUcsPaths]_vars /\ \A w \in Workers : WF_vars(UcsStep(w))

----------------------------------------------------------------------------
(* The submission loop of main with the batch sizes of the source *)

\* main has loaded n videos, all to download, and enters the while loop (the
\* loop only slices the list: the order random.shuffle gave it plays no part)
InitSched ==
  /\ \E n \in 1..MaxUrls :
       /\ LedgerIs([k \in 1..n |-> [videoId |-> k, status |-> Pending,
                                     channelId |-> "UC1"]])
       /\ urls = [k \in 1..n |-> k]
  /\ archive = <<>>
  /\ done0 = {}
  /\ archived0 = {}
  /\ outdir = [v \in VideoIds |-> 0]
  /\ pcMain = "submit"
  /\ channel_id = NoChannel
  /\ ProcessStart

\* the while loop of main with Config's batch sizes
SubmitBatchConfig == Submit(CONFIG_MIN_BATCH_SIZE, CONFIG_MAX_BATCH_SIZE)

NextSched ==
  \/ SubmitBatchConfig
  \/ BatchPause

SpecSched == InitSched /\ [][NextSched]_vars

----------------------------------------------------------------------------
(* Runs that are killed, and the downloader started again *)

\* the memory of a process that is gone or new: no list of urls, no futures,
\* no pool threads, no open descriptors and no locks
ProcessMemoryFresh ==
  /\ urls' = <<>>
  /\ idx' = 0
  /\ futures' = <<>>
  /\ totals' = <<0, 0>>
  /\ flock' = [i \in Inodes |-> 0]
  /\ wpc' = [w \in Workers |-> "idle"]
  /\ wfut' = [w \in Workers |-> 0]
  /\ wbatch' = [w \in Workers |-> <<>>]
  /\ wsuccess' = [w \in Workers |-> 0]
  /\ ucsStatus' = [w \in Workers |-> ""]
  /\ ucsRet' = [w \in Workers |-> ""]
  /\ fd' = [w \in Workers |-> NoFd]
  /\ rows' = [w \in Workers |-> <<>>]
  /\ found' = [w \in Workers |-> FALSE]
  /\ ucsAttempt' = [w \in Workers |-> 0]
  /\ ucsDelay' = [w \in Workers |-> retry_delay]
  /\ ucsSlept' = [w \in Workers |-> <<>>]
  /\ attempts' = [v \in VideoIds |-> <<>>]

\* what a kill leaves of the archive: rebuild_archive_from_files and
\* remove_from_archive open it with 'w' and write their lines one by one
ArchiveCutShort ==
  LET whole == {archive}
      rebuilding == IF pcMain = "start"
                    THEN LET entries == downloaded_files(archive, outdir, TRUE)
                         IN {SubSeq(entries, 1, k) : k \in 0..Len(entries)}
                    ELSE {}
      removing == UNION {LET ls == remove_from_archive(archive, Cur(w))
                         IN {SubSeq(ls, 1, k) : k \in 0..Len(ls)} :
                         w \in {v \in Workers : wpc[v] = "remove"}}
  IN whole \cup rebuilding \cup removing

\* what a kill leaves of the ledger: atomic_csv_update writes a temporary
\* file and renames it, so config.CSV_FILE holds the rows from before or,
\* when main is in modify_csv_rows, the promoted rows
LedgerCutShort(newArchive) ==
  LET promoted == IF pcMain = "start"
                     /\ newArchive = downloaded_files(archive, outdir, TRUE)
                  THEN {modify_csv_rows(ledger, video_ids_set(newArchive))}
                  ELSE IF pcMain = "fold"
                  THEN {modify_csv_rows(ledger, archived_ids(archive))}
                  ELSE {}
  IN {ledger} \cup promoted

\* the process is killed (SIGKILL, power loss, or the operator's interrupt):
\* every thread stops where it is, the descriptors are closed and the locks
\* released, and the files in OUTPUT_DIR stay as the last capability call
\* left them
Crash ==
  /\ pcMain \in {"start", "load", "submit", "pause", "wait", "fold"}
  /\ crashes < MaxCrashes
  /\ crashes' = crashes + 1
  /\ \E ls \in ArchiveCutShort :
       /\ archive' = ls
       /\ \E rs \in LedgerCutShort(ls) :
            /\ csvIno' = 1
            /\ files' = [i \in Inodes |-> IF i = 1 THEN rs ELSE <<>>]
  /\ pcMain' = "crashed"
  /\ ProcessMemoryFresh
  /\ UNCHANGED <<outdir, foreign, done0, archived0, rebuilt, channel_id, cleanVars, calls,
                 procVars, alines>>

\* the operator starts the downloader again, after a kill or after main
\* returned
Restart ==
  /\ pcMain \in {"crashed", "done"}
  /\ pcMain' = "start"
  /\ ProcessMemoryFresh
  /\ csvIno' = 1
  /\ files' = [i \in Inodes |-> IF i = 1 THEN ledger ELSE <<>>]
  /\ done0' = {v \in VideoIds : StatusOf(ledger, v) = DONE}
  /\ archived0' = video_ids_set(archive)
  /\ rebuilt' = FALSE
  /\ UNCHANGED <<archive, outdir, foreign, auxVars>>

\* the first run starts with a ledger of one video, pending and not downloaded
InitRuns ==
  /\ LedgerIs(<<[videoId |-> 1, status |-> Pending, channelId |-> "UC1"]>>)
  /\ archive = <<>>
  /\ done0 = {}
  /\ archived0 = {}
  /\ outdir = [v \in VideoIds |-> 0]
  /\ pcMain = "start"
  /\ urls = <<>>
  /\ channel_id = NoChannel
  /\ ProcessStart

\* a step of the downloader on that ledger: its list of urls has one entry,
\* so the while loop of main makes one turn and never pauses, and the file
\* download_batch looks for is either absent or the row is done already
RunStep ==
  \/ MainRebuild
  \/ LoadVideos
  \/ SubmitBatch
  \/ AwaitAll
  \/ Fold
  \/ \E w \in Workers : TakeBatch(w)
  \/ \E w \in Workers : StartItem(w)
  \/ \E w \in Workers : UcsLock(w)
  \/ \E w \in Workers : UcsReplace(w)
  \/ \E w \in Workers : UcsUnlock(w)
  \/ \E w \in Workers : VerifyExisting(w)
  \/ \E w \in Workers : Download(w)
  \/ \E w \in Workers : Retry(w)
  \/ \E w \in Workers : ArchiveAdd(w)
  \/ \E w \in Workers : ArchiveRemove(w)

NextRuns ==
  \/ RunStep
  \/ Crash
  \/ Restart

\* the threads of a live process keep running, and a downloader that has
\* stopped is started again
SpecRuns == InitRuns /\ [][NextRuns]_vars /\ WF_vars(RunStep) /\ WF_vars(Restart)

----------------------------------------------------------------------------
(* The start of main with or without a ledger file *)

\* main starts on any archive and OUTPUT_DIR, with no ledger file or with a
\* ledger of one video
InitStart ==
  /\ \/ LedgerMissing
     \/ \E st \in InitStatuses :
          LedgerIs(<<[videoId |-> 1, status |-> st, channelId |-> "UC1"]>>)
  /\ archive \in SeqsUpTo(Lines, MaxArchive0)
  /\ done0 = IF LedgerExists THEN {v \in VideoIds : StatusOf(ledger, v) = DONE}
             ELSE {}
  /\ archived0 = video_ids_set(archive)
  /\ outdir \in [VideoIds -> FileSizes]
  /\ pcMain = "start"
  /\ urls = <<>>
  /\ channel_id = NoChannel
  /\ ProcessStart

SpecStart == InitStart /\ [][RunStep]_vars

----------------------------------------------------------------------------
(* A second process rewrites the ledger while update_csv_status runs *)

\* modify_csv_rows in another process (a downloader in its rebuild or fold,
\* or one started with --rebuild-archive): under that process's own csv_lock
\* it opens config.CSV_FILE and writes the modified rows to its temp file
ModifyRead ==
  /\ mpc = "idle"
  /\ mrows' = modify_csv_rows(ledger, archived_ids(archive))
  /\ mpc' = "replace"
  /\ UNCHANGED <<storeVars, mainVars, workerVars, histVars, rebuilt, retryVars,
                 channel_id, cleanVars, calls, crashes, alines>>

\* atomic_csv_update in that process: temp_file.replace(csv_file)
ModifyReplace ==
  /\ mpc = "replace"
  /\ Replace(mrows, OpenFds)
  /\ mpc' = "done"
  /\ mrows' = <<>>
  /\ UNCHANGED <<flock, archive, outdir, foreign, mainVars, workerVars, histVars,
                 rebuilt, retryVars, channel_id, cleanVars, calls, crashes, alines>>

\* a ledger of two videos not yet done, and an archive that names the second
InitProcs ==
  /\ \E st \in [VideoIds -> InitStatuses \ {DONE}] :
       LedgerIs([k \in VideoIds |-> [videoId |-> k, status |-> st[k],
                                     channelId |-> "UC1"]])
  /\ archive = <<<<"youtube", MaxVideos>>>>
  /\ done0 = {}
  /\ archived0 = {MaxVideos}
  /\ outdir = [v \in VideoIds |-> 0]
  /\ pcMain = "wait"
  /\ urls = <<>>
  /\ channel_id = NoChannel
  /\ ProcessStart

\* one thread of the downloader updates the status of the first video, call
\* after call, while the other process promotes what the archive names
NextProcs ==
  \/ \E st \in Statuses \ {Pending} : UcsCall(1, 1, st)
  \/ \E w \in Workers : UcsLock(w)
  \/ \E w \in Workers : UcsReplace(w)
  \/ \E w \in Workers : UcsUnlock(w)
  \/ \E w \in Workers : UcsReturned(w)
  \/ ModifyRead
  \/ ModifyReplace

SpecProcs == InitProcs /\ [][NextProcs]_vars

----------------------------------------------------------------------------
(* add_to_archive and remove_from_archive called by concurrent threads *)

\* a pool thread calls add_to_archive(video_id): one append to the file
ArchiveAddCall(w, video_id) ==
  /\ wpc[w] = "idle"
  /\ calls < MaxCalls
  /\ calls' = calls + 1
  /\ archive' = add_to_archive(archive, video_id)
  /\ UNCHANGED <<files, csvIno, flock, outdir, foreign, mainVars, workerVars,
                 histVars, rebuilt, retryVars, channel_id, cleanVars, crashes, procVars,
                 alines>>

\* a pool thread calls remove_from_archive(video_id): f.readlines()
ArchiveRemoveRead(w, video_id) ==
  /\ wpc[w] = "idle"
  /\ calls < MaxCalls
  /\ calls' = calls + 1
  /\ alines' = [alines EXCEPT ![w] = archive]
  /\ wbatch' = [wbatch EXCEPT ![w] = <<video_id>>]
  /\ wpc' = [wpc EXCEPT ![w] = "rm_write"]
  /\ UNCHANGED <<storeVars, mainVars, wfut, wsuccess, ucsStatus, ucsRet, fd, rows,
                 found, histVars, rebuilt, retryVars, channel_id, cleanVars, crashes,
                 procVars>>

\* remove_from_archive: when the lines it read lose one, the file is opened
\* with 'w' and the lines that are left are written
ArchiveRemoveWrite(w) ==
  /\ wpc[w] = "rm_write"
  /\ LET updated_lines == remove_from_archive(alines[w], Cur(w))
     IN archive' = IF updated_lines # alines[w] THEN updated_lines ELSE archive
  /\ alines' = [alines EXCEPT ![w] = <<>>]
  /\ wbatch' = [wbatch EXCEPT ![w] = <<>>]
  /\ wpc' = [wpc EXCEPT ![w] = "idle"]
  /\ UNCHANGED <<files, csvIno, flock, outdir, foreign, mainVars, wfut, wsuccess,
                 ucsStatus, ucsRet, fd, rows, found, histVars, rebuilt, retryVars,
                 channel_id, cleanVars, calls, crashes, procVars>>

\* the threads of a pool work on any archive
\* the ids the archive may name: add_to_archive and the rebuild write any
\* id they are given, of any length
ArchIds == VideoIds \cup {ShortId}

InitArch ==
  /\ LedgerIs(<<>>)
  /\ archive \in SeqsUpTo(ArchiveTags \X ArchIds, MaxArchive0)
  /\ done0 = {}
  /\ archived0 = video_ids_set(archive)
  /\ outdir = [v \in VideoIds |-> 0]
  /\ pcMain = "wait"
  /\ urls = <<>>
  /\ channel_id = NoChannel
  /\ ProcessStart

NextArch ==
  \/ \E w \in Workers, v \in ArchIds : ArchiveAddCall(w, v)
  \/ \E w \in Workers, v \in ArchIds : ArchiveRemoveRead(w, v)
  \/ \E w \in Workers : ArchiveRemoveWrite(w)

SpecArch == InitArch /\ [][NextArch]_vars

----------------------------------------------------------------------------
(* rebuild_archive_from_files called with either value of preserve_existing *)

\* a call rebuild_archive_from_files(preserve_existing=...) on any archive,
\* output directory and ledger
RebuildCall(preserve_existing) ==
  /\ pcMain = "start"
  /\ rebuild_archive_from_files(preserve_existing)
  /\ rebuilt' = TRUE
  /\ UNCHANGED <<flock, outdir, foreign, mainVars, workerVars, histVars, retryVars,
                 auxVars>>

NextRebuild ==
  \/ RebuildCall(TRUE)
  \/ RebuildCall(FALSE)

SpecRebuild == Init /\ [][NextRebuild]_vars

----------------------------------------------------------------------------
(* More batches than the pool has threads *)

PoolIds == 1..MaxPoolVideos

\* main has loaded MaxPoolVideos videos, all pending, and enters the while
\* loop; one video has no file yet, the others have got a complete file since
\* the rebuild (see ForeignFile)
InitPool ==
  /\ LedgerIs([k \in PoolIds |-> [videoId |-> k, status |-> Pending,
                                  channelId |-> "UC1"]])
  /\ urls = [k \in PoolIds |-> k]
  /\ archive = <<>>
  /\ done0 = {}
  /\ archived0 = {}
  /\ \E u \in PoolIds :
       outdir = [v \in PoolIds |-> IF v = u THEN 0 ELSE MinFileSize + 1]
  /\ attempts = [v \in PoolIds |-> <<>>]
  /\ CleanerIdle
  /\ pcMain = "submit"
  /\ channel_id = NoChannel
  /\ ThreadsStart

\* the while loop of main and the threads of the executor
NextPool ==
  \/ SubmitBatch
  \/ BatchPause
  \/ AwaitAll
  \/ Fold
  \/ \E w \in Workers : TakeBatch(w)
  \/ \E w \in Workers : StartItem(w)
  \/ \E w \in Workers : UcsLock(w)
  \/ \E w \in Workers : UcsReplace(w)
  \/ \E w \in Workers : UcsUnlock(w)
  \/ \E w \in Workers : VerifyExisting(w)
  \/ \E w \in Workers : Download(w)
  \/ \E w \in Workers : Retry(w)
  \/ \E w \in Workers : Continue(w)
  \/ \E w \in Workers : ArchiveAdd(w)
  \/ \E w \in Workers : ArchiveRemove(w)

SpecPool == InitPool /\ [][NextPool]_vars

----------------------------------------------------------------------------
(* The cleanup tool: 04.error_download_error.py, run while no downloader is *)

\* verify_downloaded_file: possible_extensions
possible_extensions == {".mp4", ".webm", ".mkv", ".m4a", ".mp3"}

\* ErrorCleaner and ErrorAnalyzer: extensions
extensions == {".mp4", ".webm", ".mkv", ".m4a"}

\* the extensions of the files of the directory: one both lists have, one
\* only the downloader's list has, and one that no list has
DirExts == {".mp4", ".mp3", ".part"}

\* the names "<id><ext>" of the files
FileNames == VideoIds \X DirExts

\* the sizes of a file: none, below, at and above 1024 bytes; a file that is
\* no media file is a small leftover
DirSizes(ext) ==
  IF ext = ".part" THEN {0, MinFileSize - 1}
  ELSE {0, MinFileSize - 1, MinFileSize, MinFileSize + 1}

\* the largest of a set of sizes
Largest(S) == CHOOSE x \in S : \A y \in S : y <= x

\* the directory as verify_downloaded_file looks at it: for every id the
\* files "<id><ext>" with ext in possible_extensions
outdir_of(d) ==
  [v \in VideoIds |->
     Largest({0} \cup {d[<<v, ext>>] : ext \in possible_extensions \cap DirExts})]

\* ErrorCleaner._file_exists and ErrorAnalyzer._file_exists
file_exists(d, video_id) ==
  \E ext \in extensions \cap DirExts : d[<<video_id, ext>>] > MinFileSize

\* ErrorAnalyzer._check_ssl_errors
check_ssl_errors(rs) == Cardinality({k \in DOMAIN rs : rs[k].status = SSL_RETRY})

\* ErrorAnalyzer._check_corrupted_entries
check_corrupted_entries(rs) ==
  Cardinality({k \in DOMAIN rs : corrupted(rs[k].videoId)})

\* ErrorAnalyzer._check_missing_files
check_missing_files(rs, d) ==
  Cardinality({k \in DOMAIN rs :
                 rs[k].status = DONE /\ ~file_exists(d, rs[k].videoId)})

\* ErrorAnalyzer._check_archive_inconsistencies: the size of the symmetric
\* difference of the done ids and the ids of the "youtube " lines
check_archive_inconsistencies(rs, lines) ==
  LET csv_done == {rs[k].videoId : k \in {j \in DOMAIN rs : rs[j].status = DONE}}
      archive_videos == archived_ids(lines)
  IN Cardinality((csv_done \ archive_videos) \cup (archive_videos \ csv_done))

\* ErrorAnalyzer._check_failed_downloads
check_failed_downloads(rs) ==
  Cardinality({k \in DOMAIN rs : rs[k].status \in {FAILED, UNAVAILABLE}})

\* ErrorAnalyzer.analyze_all_errors
analyze_all_errors(rs, lines, d) ==
  [ssl_errors |-> check_ssl_errors(rs),
   corrupted_entries |-> check_corrupted_entries(rs),
   missing_files |-> check_missing_files(rs, d),
   archive_mismatches |-> check_archive_inconsistencies(rs, lines),
   failed_downloads |-> check_failed_downloads(rs)]

\* main: total_errors
total_errors(stats) ==
  stats.ssl_errors + stats.corrupted_entries + stats.missing_files
    + stats.archive_mismatches + stats.failed_downloads

\* ErrorCleaner._reset_ssl_errors: the rows written back
reset_ssl_errors(rs) ==
  [k \in DOMAIN rs |->
     IF rs[k].status = SSL_RETRY THEN [rs[k] EXCEPT !.status = Pending] ELSE rs[k]]

\* ErrorCleaner._remove_corrupted_entries: the rows written back
RECURSIVE remove_corrupted_entries(_)
remove_corrupted_entries(rs) ==
  IF rs = <<>> THEN <<>>
  ELSE IF corrupted(Head(rs).videoId) THEN remove_corrupted_entries(Tail(rs))
       ELSE <<Head(rs)>> \o remove_corrupted_entries(Tail(rs))

\* ErrorCleaner._fix_missing_files: the rows written back
fix_missing_files(rs, d) ==
  [k \in DOMAIN rs |->
     IF rs[k].status = DONE /\ ~file_exists(d, rs[k].videoId)
     THEN [rs[k] EXCEPT !.status = Pending]
     ELSE rs[k]]

\* ErrorCleaner._synchronize_archive: the stems, of 10 characters or more, of
\* the files DOWNLOADS_DIR.glob("*<ext>") finds, whatever their size
actual_files(d) ==
  {v \in VideoIds :
     /\ \E ext \in extensions \cap DirExts : d[<<v, ext>>] > 0
     /\ id_len(v) >= 10}

\* ErrorCleaner._synchronize_archive: the lines written
synchronize_archive(d) == sorted({<<"youtube", v>> : v \in actual_files(d)})

\* ErrorCleaner._cleanup_failed_files: every file below 1024 bytes is unlinked
cleanup_failed_files(d) ==
  [f \in DOMAIN d |-> IF d[f] < MinFileSize THEN 0 ELSE d[f]]

\* the tool writes the ledger in place: CSV_FILE.open('w')
WriteLedger(rs) ==
  /\ files' = [files EXCEPT ![csvIno] = rs]
  /\ UNCHANGED csvIno

\* main: analyze_all_errors, the summary, and the operator's answer
Analyze ==
  /\ cpc = "analyze"
  /\ cstats' = analyze_all_errors(ledger, archive, dirfiles)
  /\ \E proceed \in BOOLEAN :
       cpc' = IF total_errors(cstats') = 0 \/ ~proceed THEN "nothing" ELSE "start"
  /\ UNCHANGED <<storeVars, mainVars, workerVars, histVars, rebuilt, retryVars,
                 channel_id, dirfiles, calls, crashes, procVars, alines>>

\* cleanup_all_errors: the backup, _reset_ssl_errors and
\* _remove_corrupted_entries, each when its count is positive
CleanStart ==
  /\ cpc = "start"
  /\ LET reset == IF cstats.ssl_errors > 0 THEN reset_ssl_errors(ledger)
                  ELSE ledger
         valid == IF cstats.corrupted_entries > 0 THEN remove_corrupted_entries(reset)
                  ELSE reset
     IN WriteLedger(valid)
  /\ cpc' = "fix"
  /\ UNCHANGED <<flock, archive, outdir, foreign, mainVars, workerVars, histVars,
                 rebuilt, retryVars, channel_id, dirfiles, cstats, calls, crashes,
                 procVars, alines>>

\* cleanup_all_errors: _fix_missing_files when missing_files is positive
FixMissingFiles ==
  /\ cpc = "fix"
  /\ IF cstats.missing_files > 0
     THEN WriteLedger(fix_missing_files(ledger, dirfiles))
     ELSE UNCHANGED <<files, csvIno>>
  /\ cpc' = "sync"
  /\ UNCHANGED <<flock, archive, outdir, foreign, mainVars, workerVars, histVars,
                 rebuilt, retryVars, channel_id, dirfiles, cstats, calls, crashes,
                 procVars, alines>>

\* cleanup_all_errors: _synchronize_archive when archive_mismatches is positive
SynchronizeArchive ==
  /\ cpc = "sync"
  /\ archive' = IF cstats.archive_mismatches > 0 THEN synchronize_archive(dirfiles)
                ELSE archive
  /\ cpc' = "small"
  /\ UNCHANGED <<files, csvIno, flock, outdir, foreign, mainVars, workerVars,
                 histVars, rebuilt, retryVars, channel_id, dirfiles, cstats, calls,
                 crashes, procVars, alines>>

\* cleanup_all_errors: _cleanup_failed_files, always
CleanupFailedFiles ==
  /\ cpc = "small"
  /\ dirfiles' = cleanup_failed_files(dirfiles)
  /\ outdir' = outdir_of(dirfiles')
  /\ cpc' = "done"
  /\ UNCHANGED <<files, csvIno, flock, archive, foreign, mainVars, workerVars,
                 histVars, rebuilt, retryVars, channel_id, cstats, calls, crashes,
                 procVars, alines>>

\* the statuses of the rows the tool finds
CleanStatuses == {Pending, DONE, SSL_RETRY}

\* the tool is started on any ledger, archive and directory
InitClean ==
  /\ \E n \in 0..MaxVideos : \E st \in [1..n -> CleanStatuses] :
       LedgerIs([k \in 1..n |-> [videoId |-> k, status |-> st[k],
                                  channelId |-> "UC1"]])
  /\ archive \in SeqsUpTo({"youtube"} \X VideoIds, MaxArchive0)
  /\ dirfiles \in {d \in [FileNames -> DirSizes(".mp4")] :
                      \A f \in FileNames : d[f] \in DirSizes(f[2])}
  /\ outdir = outdir_of(dirfiles)
  /\ done0 = {v \in VideoIds : StatusOf(files[1], v) = DONE}
  /\ archived0 = video_ids_set(archive)
  /\ pcMain = "start"
  /\ urls = <<>>
  /\ channel_id = NoChannel
  /\ ThreadsStart
  /\ attempts = [v \in VideoIds |-> <<>>]
  /\ cpc = "analyze"
  /\ cstats = <<>>

NextClean ==
  \/ Analyze
  \/ CleanStart
  \/ FixMissingFiles
  \/ SynchronizeArchive
  \/ CleanupFailedFiles

SpecClean == InitClean /\ [][NextClean]_vars

----------------------------------------------------------------------------
(* Vocabulary of the claims *)

\* a worker is inside update_csv_status (it has config.CSV_FILE open)
InUcs(w) == wpc[w] \in {"ucs_lock", "ucs_replace", "ucs_unlock"}

\* a worker's last update_csv_status call for its current video has returned
\* and the worker has not started another call
Returned(w) == wpc[w] \in {"verify", "download", "retry", "continue", "add", "remove"}

\* the video has a file in OUTPUT_DIR above the 1 KiB threshold
ArtifactOnDisk(v) == outdir[v] > MinFileSize

\* the archive has the line "youtube <v>"
ArchiveListed(v) == <<"youtube", v>> \in Range(archive)

\* the videos main scheduled in this run
Scheduled == Range(urls)

\* main has returned after running its batches and the fold
RunEnded == pcMain = "done" /\ urls # <<>>

----------------------------------------------------------------------------
(* C1 *)

\* C1: once every update_csv_status call has returned, the ledger shows, for
\* each worker, the status that worker's last call wrote for its video: no
\* caller's update is overwritten by another caller's rewrite of the file.
C1_NoLostUpdate ==
  (\A w \in Workers : ~InUcs(w)) =>
    \A w \in Workers : Returned(w) => StatusOf(ledger, Cur(w)) = ucsStatus[w]

(* C2 *)

\* C2: no two executions of update_csv_status are at the same time between
\* the read of the ledger rows and the replacement of the ledger file.
C2_MutualExclusion ==
  \A w1, w2 \in Workers :
    w1 # w2 => ~(wpc[w1] = "ucs_replace" /\ wpc[w2] = "ucs_replace")

(* C3 *)

\* C3 as stated: after a full run every ledger row that is done has an
\* artifact on disk that passes the Verifier, whatever the run started from.
C3_NoFalseDone ==
  pcMain = "done" =>
    \A v \in VideoIds : StatusOf(ledger, v) = DONE => ArtifactOnDisk(v)

\* C3 as amended: after a full run every ledger row that is done has an
\* artifact on disk that passes the Verifier, or was done before the run, or
\* its id was named by a line of the archive before the run.
C3_DoneHasEvidence ==
  pcMain = "done" =>
    \A v \in VideoIds :
      StatusOf(ledger, v) = DONE =>
        ArtifactOnDisk(v) \/ v \in done0 \/ v \in archived0

\* a run ended with one row done by a download of this run and another row
\* done from the start without any artifact
C3_Witness ==
  /\ pcMain = "done"
  /\ \E v, u \in VideoIds :
       /\ StatusOf(ledger, v) = DONE /\ attempts[v] # <<>> /\ ArtifactOnDisk(v)
       /\ StatusOf(ledger, u) = DONE /\ u \in done0 /\ ~ArtifactOnDisk(u)

(* C4 *)

\* every capability call made for v returned and left a file that verifies
AllCallsOk(v) == attempts[v] # <<>> /\ \A k \in DOMAIN attempts[v] : attempts[v][k] = "ok"

\* C4: when the capability succeeds with a verifiable artifact for every
\* scheduled video, then after the run every scheduled video is done in the
\* ledger and listed in the archive, for every batch split and interleaving.
C4_AllSucceedAllDone ==
  (RunEnded /\ \A v \in Scheduled : AllCallsOk(v)) =>
    \A v \in Scheduled : StatusOf(ledger, v) = DONE /\ ArchiveListed(v)

\* a run of two batches on two workers ended with every call successful
C4_Witness ==
  /\ RunEnded
  /\ Len(futures) = 2
  /\ Cardinality(Scheduled) = 2
  /\ \A v \in Scheduled : AllCallsOk(v)

(* C5 *)

\* C5: right after update_csv_from_archive returns, every id of a "youtube"
\* line of the archive that has a ledger row is done in that row.
C5_FoldPromotesArchived ==
  RunEnded =>
    \A v \in VideoIds :
      (ArchiveListed(v) /\ HasRow(ledger, v)) => StatusOf(ledger, v) = DONE

\* the fold has run over an archive that lists a video downloaded in this run
C5_Witness ==
  /\ RunEnded
  /\ \E v \in Scheduled : ArchiveListed(v) /\ HasRow(ledger, v)

(* C6 *)

\* C6: a rebuild_archive_from_files that directly follows another one changes
\* neither the archive lines nor any ledger row.
C6_RebuildIdempotent ==
  [][(rebuilt /\ (RebuildArchiveOnly \/ MainRebuild)) =>
       (archive' = archive /\ files'[csvIno'] = files[csvIno])]_vars

\* a first rebuild has run, has promoted a row and has added an archive line
C6_Witness ==
  /\ rebuilt
  /\ \E v \in VideoIds :
       /\ v \notin done0 /\ StatusOf(ledger, v) = DONE
       /\ v \notin archived0 /\ ArchiveListed(v)

(* C7 *)

\* C7: while the workers run, the ledger never shows a video passing from
\* pending directly to a terminal status (in_progress is written first).
C7_NeverSkipsInProgress ==
  [][(pcMain \notin {"start", "fold"}) =>
       \A v \in VideoIds :
         StatusOf(files[csvIno], v) = Pending =>
           StatusOf(files'[csvIno'], v) \notin Terminal]_vars

(* C8 *)

\* C8: when the capability reports an error whose text contains "unavailable"
\* (and no other recognised word) for a video, then after the run its ledger
\* status is unavailable and the archive does not list it.
C8_UnavailableRecorded ==
  RunEnded =>
    \A v \in Scheduled :
      (attempts[v] # <<>> /\ attempts[v][1] = "unavailable") =>
        (StatusOf(ledger, v) = UNAVAILABLE /\ ~ArchiveListed(v))

(* C9 *)

\* C9: when the first capability call for a video raises a connection error
\* and the retry succeeds with a verified artifact, then after the run the
\* video is done in the ledger and listed in the archive, and the capability
\* was called exactly twice for it (one retry).
C9_RetrySucceeds ==
  RunEnded =>
    \A v \in Scheduled :
      (Len(attempts[v]) >= 2 /\ attempts[v][1] = "connection" /\ attempts[v][2] = "ok") =>
        (StatusOf(ledger, v) = DONE /\ ArchiveListed(v) /\ Len(attempts[v]) = 2)

\* a run ended in which a video's first call raised a connection error and
\* its retry succeeded, while another worker was processing another video
C9_Witness ==
  /\ RunEnded
  /\ Len(futures) = 2
  /\ \E v \in Scheduled : attempts[v] = <<"connection", "ok">>

(* C10 *)

\* C10: rebuild_archive_from_files never changes a ledger row from done to
\* another status.
C10_RebuildNeverDemotes ==
  [][(RebuildArchiveOnly \/ MainRebuild) =>
       \A v \in VideoIds :
         StatusOf(files[csvIno], v) = DONE => StatusOf(files'[csvIno'], v) = DONE]_vars

\* a rebuild has run and a row is done with no artifact and no archive line
C10_Witness ==
  /\ rebuilt
  /\ \E v \in VideoIds :
       /\ StatusOf(ledger, v) = DONE
       /\ ~ArtifactOnDisk(v)
       /\ v \notin video_ids_set(archive)

----------------------------------------------------------------------------
(* C11 *)

\* load_videos_from_csv has returned
Loaded == pcMain \in {"submit", "done"}

\* the rows of the ledger that have an id, belong to the selected channel
\* when one is given, and are neither done nor unavailable
Qualifying ==
  {k \in DOMAIN ledger :
     /\ ledger[k].videoId # EmptyId
     /\ (channel_id # NoChannel => ledger[k].channelId = channel_id)
     /\ ledger[k].status # DONE
     /\ ledger[k].status # UNAVAILABLE}

\* C11: the items load_videos_from_csv schedules are exactly the ledger rows
\* (of the selected channel, when one is given) whose status is neither done
\* nor unavailable, each scheduled once; rows with an empty, in_progress,
\* failed, captcha_challenge or ssl_retry status are among them.
C11_SchedulesNotDoneNotUnavailable ==
  Loaded =>
    /\ Range(urls) = {ledger[k].videoId : k \in Qualifying}
    /\ Len(urls) = Cardinality(Qualifying)

\* a channel was given; a failed row of it is scheduled and a pending row of
\* the other channel is not
C11_Witness ==
  /\ Loaded
  /\ channel_id # NoChannel
  /\ \E j, k \in DOMAIN ledger :
       /\ ledger[j].status = FAILED /\ ledger[j].channelId = channel_id
       /\ ledger[j].videoId \in Range(urls)
       /\ ledger[k].status = Pending /\ ledger[k].channelId # channel_id
       /\ ledger[k].videoId \notin Range(urls)

(* C12 *)

\* C12: every batch the scheduler has submitted holds at least one url and
\* at most MAX_BATCH_SIZE urls, and a batch of fewer than MIN_BATCH_SIZE urls
\* is the final one: it is the last submitted and ends the list of urls.
C12_BatchSizes ==
  \A k \in DOMAIN futures :
    /\ Len(futures[k].urls) >= 1
    /\ Len(futures[k].urls) <= CONFIG_MAX_BATCH_SIZE
    /\ Len(futures[k].urls) < CONFIG_MIN_BATCH_SIZE =>
         (k = Len(futures) /\ idx = Len(urls))

\* three batches were submitted, the first of the largest size, and the final
\* one is smaller than MIN_BATCH_SIZE
C12_Witness ==
  /\ pcMain = "wait"
  /\ Len(futures) = 3
  /\ Len(futures[1].urls) = CONFIG_MAX_BATCH_SIZE
  /\ Len(futures[3].urls) < CONFIG_MIN_BATCH_SIZE

(* C13 *)

C14_UnknownIdIsNoOp ==
  [][\A w \in Workers :
       (InUcs(w) /\ Cur(w) \notin RowIds(ledger) /\ wpc'[w] # wpc[w]
          /\ ~UcsIOError(w)) =>
         /\ csvIno' = csvIno
         /\ files'[csvIno] = files[csvIno]
         /\ ucsAttempt'[w] = ucsAttempt[w]
         /\ wpc'[w] \in {"ucs_replace", "ucs_unlock", ucsRet[w]}]_vars

\* a call for an id without a row has returned at its first attempt, beside
\* the row of another id
C14_Witness ==
  \E w \in Workers :
    /\ wpc[w] = "returned"
    /\ ledger # <<>>
    /\ Cur(w) \notin RowIds(ledger)
    /\ ucsAttempt[w] = 0

(* C15 *)

\* C15: the replacement of the ledger file by update_csv_status(id, s) keeps
\* the number and the order of the rows and every column but status, and
\* keeps the status of every row whose id is not id.
C15_OnlyMatchingStatusChanges ==
  [][\A w \in Workers :
       (wpc[w] = "ucs_replace" /\ wpc'[w] = "ucs_unlock") =>
         /\ Len(files'[csvIno']) = Len(files[csvIno])
         /\ \A k \in DOMAIN files[csvIno] :
              /\ files'[csvIno'][k].videoId = files[csvIno][k].videoId
              /\ files'[csvIno'][k].channelId = files[csvIno][k].channelId
              /\ files[csvIno][k].videoId # Cur(w) =>
                   files'[csvIno'][k].status = files[csvIno][k].status]_vars

(* C16 *)

\* the batch has run: download_batch has returned or has raised
Finished(k) == futures[k].st \in {"done", "raised"}

\* C16: when main ends on the exception of a batch, every batch that was
\* submitted has run (none is still queued or running, none was cancelled),
\* and every batch that did not raise has passed each of its urls to the
\* capability.
C16_OtherBatchesComplete ==
  pcMain = "aborted" =>
    \A k \in DOMAIN futures :
      /\ Finished(k)
      /\ futures[k].st = "done" =>
           \A v \in Range(futures[k].urls) : attempts[v] # <<>>

\* main ended on the exception of the first batch, and the second batch has
\* returned
C16_Witness ==
  /\ pcMain = "aborted"
  /\ Len(futures) = 2
  /\ futures[1].st = "raised"
  /\ futures[2].st = "done"

(* C17 *)

\* C17: no failure that occurs while an item is processed escapes
\* download_batch: no batch ends by raising.
C17_NoFailureEscapes ==
  \A k \in DOMAIN futures : futures[k].st # "raised"

(* C18 *)

\* C18: once the interrupt has arrived in the main thread no batch is
\* submitted any more; when the process then ends, every batch that was
\* submitted has run; and at every moment the ledger file holds the complete
\* table, one row for every video.
C18_InterruptKeepsLedgerWhole ==
  /\ [][(pcMain \in {"interrupted", "stopped"}) => Len(futures') = Len(futures)]_vars
  /\ [](pcMain = "stopped" => \A k \in DOMAIN futures : Finished(k))
  /\ [](Len(ledger) = MaxVideos /\ RowIds(ledger) = VideoIds)

\* the interrupt arrived after the first batch was submitted and before the
\* second: the first batch has returned, the rest was never submitted
C18_Witness ==
  /\ pcMain = "stopped"
  /\ Len(futures) = 1
  /\ futures[1].st = "done"
  /\ idx < Len(urls)

(* C20 *)

\* the id has the wrong length or contains whitespace or a separator
Malformed(video_id) == id_len(video_id) # 11 \/ id_has_separator(video_id)

\* C20: a ledger row whose id is malformed is never scheduled for download.
C20_MalformedNeverScheduled ==
  Loaded => \A k \in DOMAIN urls : ~Malformed(urls[k])

----------------------------------------------------------------------------
(* C19 *)

\* a capability call of the running process returned and left a file that
\* verifies
CapabilitySucceeded(v) == "ok" \in Range(attempts[v])

\* the ids of the rows that are neither done nor unavailable
Unfinished(rs) ==
  {v \in RowIds(rs) : StatusOf(rs, v) \notin {DONE, UNAVAILABLE}}

\* C19: when the downloader is started again after a run that stopped at any
\* point, the list it loads holds every video whose row is neither done nor
\* unavailable, rows left in_progress included; and a video the capability
\* has succeeded for has its row done at some later time, within this run or
\* one that follows
C19_ResumesAndFinishes ==
  /\ [][LoadVideos => Range(urls') = Unfinished(ledger)]_vars
  /\ \A v \in VideoIds :
       (HasRow(ledger, v) /\ CapabilitySucceeded(v)) ~> (StatusOf(ledger, v) = DONE)

\* a downloader started after a kill has put a row left in_progress on its
\* list again
C19_Witness ==
  /\ crashes > 0
  /\ pcMain = "submit"
  /\ \E v \in Range(urls) : StatusOf(ledger, v) = IN_PROGRESS

----------------------------------------------------------------------------
(* C21 *)

\* C21: when config.CSV_FILE does not exist as main starts, main submits no
\* batch and the process ends in sys.exit(1), which no except clause of
\* __main__ catches
C21_MissingLedgerAborts ==
  ~LedgerExists => /\ futures = <<>>
                   /\ pcMain \in {"start", "load", "exit1"}

\* the process has exited with status 1 for want of a ledger file
C21_Witness == ~LedgerExists /\ pcMain = "exit1"

----------------------------------------------------------------------------
(* C22 *)

\* a submitted batch has not completed yet
BatchPending(k) == futures[k].st \in {"queued", "running"}

\* main is in update_csv_from_archive or has returned from it
FoldReached == pcMain \in {"fold", "done"} /\ futures # <<>>

\* the process has ended, by the return of main or by an exception that
\* left it, without an interrupt by the operator
EndedUninterrupted == pcMain \in {"done", "aborted"}

\* C22: the fold is not reached while a submitted batch is still queued or
\* running, and a run that submitted a batch and ended without being
\* interrupted has executed the fold
C22_FoldAfterAllBatches ==
  /\ FoldReached => \A k \in DOMAIN futures : ~BatchPending(k)
  /\ (EndedUninterrupted /\ futures # <<>>) => pcMain = "done"

----------------------------------------------------------------------------
(* C23 *)

\* the capability was called a second time for the video
Retried(v) == Len(attempts[v]) >= 2

\* the worker is writing the terminal status that follows its retry
AfterFailedRetry(w) ==
  /\ InUcs(w)
  /\ ucsRet[w] \in {"add", "remove"}
  /\ Retried(Cur(w))
  /\ attempts[Cur(w)][2] # "ok"

\* C23: the capability is called at most twice for a video; a second call
\* is made only after a first call that failed with an error whose text has
\* ssl, eof or connection and has neither captcha, challenge nor unavailable
\* (those errors, and unclassified ones, are not retried); and after a retry
\* that raised or left no verified file the status written is ssl_retry
C23_OneRetryForTransientOnly ==
  /\ \A v \in VideoIds :
       /\ Len(attempts[v]) <= 2
       /\ Retried(v) => attempts[v][1] = "connection"
  /\ \A w \in Workers : AfterFailedRetry(w) => ucsStatus[w] = SSL_RETRY

----------------------------------------------------------------------------
(* C24 *)

\* the terminal statuses other than done
NotDoneTerminal == {FAILED, UNAVAILABLE, CAPTCHA_CHALLENGE, SSL_RETRY}

\* the worker's update_csv_status call returns in this step
UcsReturns(w) == InUcs(w) /\ ~InUcs(w)'

\* C24: when a worker's write of failed, unavailable, captcha_challenge or
\* ssl_retry returns, the worker goes on to remove_from_archive for the same
\* video, and it leaves remove_from_archive with no line of that video in
\* the archive file before it turns to the next url
C24_RemoveFollowsFailure ==
  /\ [][\A w \in Workers :
          (UcsReturns(w) /\ ucsStatus[w] \in NotDoneTerminal)
            => (wpc'[w] = "remove" /\ wbatch'[w] = wbatch[w])]_vars
  /\ [][\A w \in Workers :
          (wpc[w] = "remove" /\ wpc'[w] # "remove")
            => (Cur(w) \notin video_ids_set(archive')
                /\ ucsStatus[w] \in NotDoneTerminal)]_vars

\* the last capability call for a scheduled video failed, and its worker
\* has been through remove_from_archive and has gone on
C24_Witness ==
  \E v \in Scheduled :
    /\ attempts[v] # <<>>
    /\ attempts[v][Len(attempts[v])] # "ok"
    /\ v \notin video_ids_set(archive)
    /\ \A w \in Workers : wbatch[w] = <<>> \/ Cur(w) # v

----------------------------------------------------------------------------
(* C25 *)

\* the worker is in, or back from, the write of done for a file that was
\* already there
SkippedDownload(w) ==
  \/ InUcs(w) /\ ucsRet[w] = "continue"
  \/ wpc[w] = "continue"

\* C25: when the file of a video verifies at the check before the download,
\* the worker counts a success and calls update_csv_status with done, whose
\* rewrite leaves the row done in the ledger file, and the capability is not
\* called for the video
C25_VerifiedFileSkipsDownload ==
  /\ [][\A w \in Workers :
          (wpc[w] = "verify" /\ ArtifactOnDisk(Cur(w)) /\ wpc'[w] # "verify")
            => /\ SkippedDownload(w)'
               /\ ucsStatus'[w] = DONE
               /\ wsuccess'[w] = wsuccess[w] + 1]_vars
  /\ [][\A w \in Workers :
          (SkippedDownload(w) /\ wpc[w] = "ucs_replace" /\ wpc'[w] # "ucs_replace")
            => StatusOf(ledger', Cur(w)) = DONE]_vars
  /\ [](\A w \in Workers : SkippedDownload(w) => attempts[Cur(w)] = <<>>)

\* the write of done for a file that was already there has returned, with
\* the success counted and the ledger showing done
C25_Witness ==
  \E w \in Workers :
    /\ wpc[w] = "continue"
    /\ wsuccess[w] > 0
    /\ StatusOf(ledger, Cur(w)) = DONE

----------------------------------------------------------------------------
(* C26 *)

\* the worker's first capability call for its video returned without an
\* error and left no file that verifies, and the worker is in the status
\* write that follows or back from it
ReturnedUnverified(w) ==
  /\ wpc[w] \in {"ucs_lock", "ucs_replace", "ucs_unlock", "add", "remove"}
  /\ attempts[Cur(w)] = <<"unverified">>

----------------------------------------------------------------------------
(* C27 *)

\* C27: no step of a run takes a row of the ledger file from done to another
\* status
C27_DoneStaysDone ==
  [][\A v \in RowIds(ledger) :
       StatusOf(ledger, v) = DONE => StatusOf(ledger', v) = DONE]_vars

----------------------------------------------------------------------------
(* C28 *)

\* C28: when main has returned from a run whose batches all returned and
\* whose ledger writes all went through, no video it scheduled has the
\* status in_progress in the ledger
C28_NoneLeftInProgress ==
  RunEnded => \A v \in Scheduled : StatusOf(ledger, v) # IN_PROGRESS

----------------------------------------------------------------------------
(* C29 *)

\* the thread has made a call of update_csv_status and is in none now
CallsOver(w) == calls > 0 /\ wpc[w] \in {"idle", "returned"} /\ ucsStatus[w] # ""

\* C29: whatever the order of the steps of update_csv_status in one process
\* and of modify_csv_rows in another, the ledger shows the status the last
\* returned update_csv_status call wrote, and, once modify_csv_rows has
\* renamed its file, the promotion it made
C29_BulkRewriteExcludesUpdate ==
  /\ CallsOver(1) => StatusOf(ledger, 1) = ucsStatus[1]
  /\ mpc = "done" => StatusOf(ledger, MaxVideos) = DONE

----------------------------------------------------------------------------
(* C30 *)

\* C30: remove_from_archive for a video takes no line of another video out
\* of the archive file, whatever add_to_archive calls of other threads run
\* between its read and its write
C30_RemoveKeepsOtherEntries ==
  [][\A w \in Workers :
       (wpc[w] = "rm_write" /\ wpc'[w] # "rm_write")
         => \A l \in Range(archive) : l[2] # Cur(w) => l \in Range(archive')]_vars

----------------------------------------------------------------------------
(* C31 *)

\* C31: a remove_from_archive(id) that runs with no other write to the
\* archive between its read and its write leaves no line for id and keeps
\* every line of every other id, also when one id is a suffix of the other
C31_RemoveDropsOnlyItsId ==
  [][\A w \in Workers :
       (wpc[w] = "rm_write" /\ wpc'[w] # "rm_write" /\ alines[w] = archive)
         => /\ \A l \in Range(archive') : l[2] # Cur(w)
            /\ \A l \in Range(archive) :
                 l[2] # Cur(w) => l \in Range(archive')]_vars

----------------------------------------------------------------------------
(* C32 *)

\* C32: rebuild_archive_from_files promotes a ledger row to done only when
\* its id is named by a "youtube <id>" line of the archive or has an artifact
\* on disk; a line with another prefix changes no row
C32_RebuildPromotesRecognizedOnly ==
  [][(RebuildArchiveOnly \/ MainRebuild) =>
       \A v \in VideoIds :
         (StatusOf(ledger, v) # DONE /\ StatusOf(ledger', v) = DONE)
           => (v \in archived_ids(archive) \/ ArtifactOnDisk(v))]_vars

----------------------------------------------------------------------------
(* C33 *)

\* the lines are in string order and no line occurs twice
SortedNoDuplicate(lines) ==
  \A i \in 1..(Len(lines) - 1) :
    LineLeq(lines[i], lines[i + 1]) /\ lines[i] # lines[i + 1]

\* one "youtube <id>" entry for every file above 1024 bytes
EntriesOfFiles == {<<"youtube", v>> : v \in {u \in VideoIds : ArtifactOnDisk(u)}}

\* C33: after rebuild_archive_from_files the archive is sorted and has no
\* duplicate; with preserve_existing true its entries are the entries it had
\* before and one per file above 1024 bytes, with preserve_existing false
\* only the entries of such files
C33_RebuildWritesSortedUnion ==
  [][\A p \in BOOLEAN :
       RebuildCall(p) =>
         /\ SortedNoDuplicate(archive')
         /\ Range(archive') =
              (IF p THEN Range(archive) ELSE {}) \cup EntriesOfFiles]_vars

\* a rebuild has run that kept no entry of the archive it found: a file's
\* entry is new and an entry without a file is gone
C33_Witness ==
  /\ rebuilt
  /\ \E v \in VideoIds : ArtifactOnDisk(v) /\ v \notin archived0 /\ ArchiveListed(v)
  /\ \E u \in archived0 : ~ArtifactOnDisk(u) /\ u \notin video_ids_set(archive)

----------------------------------------------------------------------------
(* C34 *)

\* the urls of the submitted batches, in the order of submission
RECURSIVE SubmittedUrls(_)
SubmittedUrls(fs) ==
  IF fs = <<>> THEN <<>> ELSE Head(fs).urls \o SubmittedUrls(Tail(fs))

\* the urls a worker still has to process are the tail of its batch
TailOf(rest, batch) ==
  Len(rest) <= Len(batch)
    /\ rest = SubSeq(batch, Len(batch) - Len(rest) + 1, Len(batch))

\* C34: the batches submitted so far are consecutive slices of the shuffled
\* list, together the list up to the position reached, and the whole list
\* when submission is over; no video is in two batches, no batch is run by
\* two workers, and a worker processes urls of its own batch only
C34_BatchesPartitionUrls ==
  /\ SubmittedUrls(futures) = SubSeq(urls, 1, idx)
  /\ pcMain \in {"wait", "fold", "done"} => idx = Len(urls)
  /\ \A v \in VideoIds :
       Cardinality({k \in DOMAIN futures : v \in Range(futures[k].urls)}) <= 1
  /\ \A w1, w2 \in Workers :
       (w1 # w2 /\ wpc[w1] # "idle" /\ wpc[w2] # "idle") => wfut[w1] # wfut[w2]
  /\ \A w \in Workers :
       wpc[w] # "idle" => TailOf(wbatch[w], futures[wfut[w]].urls)

\* two batches of one video each are run by two workers at the same time
C34_Witness ==
  /\ Len(futures) = 2
  /\ futures[1].urls # futures[2].urls
  /\ \A w \in Workers : wpc[w] = "download" /\ Len(wbatch[w]) = 1

----------------------------------------------------------------------------
(* C35 *)

\* the batches a thread of the pool is executing
Executing == {k \in DOMAIN futures : futures[k].st = "running"}

\* the thread goes on to the next url of its batch
StartsNextItem(w) ==
  wpc[w] \notin {"idle", "item"} /\ wpc'[w] = "item"

\* update_csv_status, called with a terminal status, writes the ledger
WritesTerminal(w) ==
  wpc[w] = "ucs_replace" /\ wpc'[w] = "ucs_unlock" /\ ucsStatus[w] \in Terminal

\* C35: at most MAX_WORKERS batches are executing at any time and each of
\* them by one thread, which processes one url at a time: it goes on to the
\* next url of the batch only when the update_csv_status call that writes
\* the terminal status of the url before has returned, and that call has
\* written the status into the ledger
C35_BoundedPoolSequentialBatch ==
  /\ [](/\ Cardinality(Executing) <= MAX_WORKERS
        /\ \A k \in Executing : Cardinality({w \in Workers : wfut[w] = k}) = 1)
  /\ [][\A w \in Workers :
          /\ StartsNextItem(w) =>
               (wpc[w] \in {"continue", "add", "remove"}
                  /\ ucsStatus[w] \in Terminal)
          /\ WritesTerminal(w) => StatusOf(ledger', Cur(w)) = ucsStatus[w]]_vars

\* three batches were submitted: two are executing, each by its thread, one
\* of them downloading, and the third waits for a thread
C35_Witness ==
  /\ Len(futures) = 3
  /\ Cardinality(Executing) = MAX_WORKERS
  /\ futures[3].st = "queued"
  /\ \E w \in Workers : wpc[w] = "download"

----------------------------------------------------------------------------
(* C36 *)

\* the thread holds the advisory lock of some file
HoldsLock(w) == \E i \in Inodes : flock[i] = w

\* the thread is in a call of update_csv_status: in an attempt, or asleep
\* between two attempts
InCall(w) == InUcs(w) \/ wpc[w] = "ucs_open"

\* C36: a thread that is not inside an attempt of update_csv_status holds no
\* lock on the ledger, whichever way the attempt ended; every call returns
\* to its caller; and a thread that waits for the lock stops waiting
C36_UcsReturnsAndUnlocks ==
  /\ [](\A w \in Workers : ~InUcs(w) => ~HoldsLock(w))
  /\ \A w \in Workers : InCall(w) ~> (wpc[w] = "returned")
  /\ \A w \in Workers : (wpc[w] = "ucs_lock") ~> (wpc[w] # "ucs_lock")

\* a thread waits for the lock another thread holds
C36_Witness ==
  \E w1, w2 \in Workers :
    /\ w1 # w2
    /\ wpc[w1] = "ucs_lock"
    /\ fd[w1] # NoFd /\ flock[fd[w1]] = w2
    /\ wpc[w2] = "ucs_replace"

----------------------------------------------------------------------------
(* C37 *)

\* main submits a batch
Submits == Len(futures') = Len(futures) + 1

\* C37: a submission that is not the last is followed by batch_pause before
\* anything else main does, so no two submissions follow each other without
\* a pause; the last submission is followed by the wait for the batches and
\* by no pause
C37_PauseBetweenSubmissions ==
  [][/\ Submits => pcMain' = (IF idx' < Len(urls) THEN "pause" ELSE "wait")
     /\ pcMain = "pause" => (~Submits /\ pcMain' = "submit")
     /\ ~(pcMain # "pause" /\ pcMain' = "submit")
     /\ pcMain = "wait" => (~Submits /\ pcMain' \notin {"pause", "submit"})]_vars

\* two batches were submitted with a pause between them, and main waits for
\* them without another pause
C37_Witness ==
  /\ pcMain = "wait"
  /\ Len(futures) = 2
  /\ idx = Len(urls)
  /\ Len(futures[1].urls) < Len(urls)

----------------------------------------------------------------------------
(* C38 *)

\* C38: a run of _fix_missing_files sets to pending exactly the rows that
\* are done and have no artifact on disk (a file of the id with a recognized
\* extension above 1024 bytes), and leaves every other row as it is
C38_FixResetsExactlyMissing ==
  [][(FixMissingFiles /\ cstats.missing_files > 0) =>
       /\ Len(ledger') = Len(ledger)
       /\ \A k \in DOMAIN ledger :
            ledger'[k] =
              IF ledger[k].status = DONE /\ ~ArtifactOnDisk(ledger[k].videoId)
              THEN [ledger[k] EXCEPT !.status = Pending]
              ELSE ledger[k]]_vars

----------------------------------------------------------------------------
(* C39 *)

\* C39: for every id and every content of the directory,
\* verify_downloaded_file(id) and ErrorCleaner._file_exists(id) give the same
\* answer
C39_VerifierAgreesWithCleaner ==
  \A v \in VideoIds :
    verify_downloaded_file(outdir, v) <=> file_exists(dirfiles, v)

----------------------------------------------------------------------------
(* C40 *)

\* cleanup_all_errors has run _fix_missing_files, _synchronize_archive and
\* _cleanup_failed_files
AllStepsRun ==
  cpc = "done" /\ cstats.missing_files > 0 /\ cstats.archive_mismatches > 0

\* C40: when cleanup_all_errors has run all of its steps, every line of the
\* archive names a video that has an artifact on disk
C40_ArchiveEntriesHaveArtifacts ==
  AllStepsRun => \A l \in Range(archive) : ArtifactOnDisk(l[2])

====
